---- MODULE Spec2Model ----
(***************************************************************************)
(* A model of ThinEngine (src/unnamed/part_000), the WebGL state-tracking  *)
(* engine: the cache of bound buffers, textures, framebuffer, program and  *)
(* vertex array object, the driver context behind it, the context          *)
(* loss/restoration handlers and the index-buffer element width selection. *)
(*                                                                         *)
(* The engine's methods are operators from a "world" w to the world after  *)
(* the call, so that a method that calls other methods is the composition  *)
(* the source writes.  A world is a record                                 *)
(*    w.e  the fields of the engine object                                 *)
(*    w.h  the heap objects the engine hands out (DataBuffer,              *)
(*         InternalTexture, render target wrappers, uniforms, observers)   *)
(*    w.g  the state of the WebGL context (the driver)                     *)
(*    w.t  the operation in progress: its name and arguments, the driver   *)
(*         functions it has invoked so far, whether it threw               *)
(* Every action runs one public entry point to completion.                 *)
(***************************************************************************)
EXTENDS Integers, Sequences, FiniteSets, TLC

VARIABLES engine, heap, gl, trace

vars == <<engine, heap, gl, trace>>

----------------------------------------------------------------------------
(* Handles.  Every handle is an integer so that a cache slot can be        *)
(* compared with any of them: Undefined is the value of a field that was   *)
(* declared and never assigned, Null is null, objects are 1, 2, ...        *)

Undefined == -1
Null == 0

(* An optional argument or a nullable field that holds a string or a      *)
(* boolean: absent (undefined, null), or the value.                        *)
NoString == << >>
Some(s) == <<s>>
Coalesce(a, b) == IF a # NoString THEN a ELSE b        \* a ?? b

(* Bounds of the model. *)
MaxBuffers == 2          \* DataBuffer objects the factory may create
MaxRestores == 1         \* context loss/restoration cycles
MaxLen == 2              \* length of an index list
MaxEffects == 2          \* Effect objects the engine may construct
MaxReferences == 3       \* references held on one Effect or DataBuffer
MaxReleases == 2         \* calls of releaseEffects
MaxDrawBuffers == 3      \* DataBuffer objects of a scene that draws indexed primitives
MaxInstances == 1        \* instance attributes bound at one time
MaxHardwareTextures == 2 \* WebGLTexture handles the engine may create
MaxLifeTime == 2         \* updates a particle lives
MaxParticles == 3        \* active particles the model follows a system to
MaxFrames == 4           \* updates the model follows a started system for
MaxTimers == 1           \* pending callbacks of delayed starts
MaxPlanes == 2           \* native planes the host detects

BufferIds == 1..(IF MaxDrawBuffers > MaxBuffers THEN MaxDrawBuffers ELSE MaxBuffers)
EffectIds == 1..MaxEffects
Textures == {1, 2}       \* InternalTexture objects
Channels == {0, 1}       \* texture units (caps.maxCombinedTexturesImageUnits = 2)
Programs == {1, 2}       \* WebGLProgram of effect 1, effect 2
Effects == {1, 2}
Vaos == {1, 2}           \* WebGLVertexArrayObject handles
RenderTargets == {1, 2}  \* 1 is multisampled, 2 is not
Framebuffers == {1, 2, 3}

(* gl.ARRAY_BUFFER and gl.ELEMENT_ARRAY_BUFFER *)
ARRAY_BUFFER == 34962
ELEMENT_ARRAY_BUFFER == 34963
BufferTargets == {ARRAY_BUFFER, ELEMENT_ARRAY_BUFFER}

(* gl.TEXTURE_2D and gl.TEXTURE_CUBE_MAP *)
TEXTURE_2D == 3553
TEXTURE_CUBE_MAP == 34067

(* The render target wrappers: rtWrapper._framebuffer,                     *)
(* rtWrapper._MSAAFramebuffer, rtWrapper.texture and its generateMipMaps,  *)
(* rtWrapper.width.  Target 1 has a multisample framebuffer, target 2 has  *)
(* none and a texture that generates mipmaps.                              *)
RenderTargetWrapper(rt) ==
    IF rt = 1
    THEN [_framebuffer |-> 1, _MSAAFramebuffer |-> 2, isMulti |-> FALSE,
          texture |-> 1, generateMipMaps |-> FALSE, width |-> 4]
    ELSE [_framebuffer |-> 3, _MSAAFramebuffer |-> Null, isMulti |-> FALSE,
          texture |-> 2, generateMipMaps |-> TRUE, width |-> 8]

----------------------------------------------------------------------------
(* The driver.  A driver function appends itself to the calls of the       *)
(* operation in progress; on a lost context it has no other effect.        *)

Call(w, fn, a, b) == [w EXCEPT !.t.calls = Append(@, <<fn, a, b>>)]

glBindBuffer(w, target, resource) ==
    LET c == Call(w, "bindBuffer", target, resource) IN
    IF w.g.lost THEN c
    ELSE IF target = ARRAY_BUFFER
         THEN [c EXCEPT !.g.arrayBuffer = resource]
         ELSE [c EXCEPT !.g.elementBuffer[w.g.vertexArray] = resource]

(* gl.deleteBuffer(buffer): the context drops the buffer from its current  *)
(* bindings.                                                               *)
glDeleteBuffer(w, resource) ==
    LET c == Call(w, "deleteBuffer", resource, 0) IN
    IF w.g.lost THEN c
    ELSE [c EXCEPT !.g.arrayBuffer = IF @ = resource THEN Null ELSE @,
                   !.g.elementBuffer[w.g.vertexArray] = IF @ = resource THEN Null ELSE @]

glBindVertexArray(w, vao) ==
    LET c == Call(w, "bindVertexArray", vao, 0) IN
    IF w.g.lost THEN c ELSE [c EXCEPT !.g.vertexArray = vao]

(* gl.enableVertexAttribArray(index) and gl.disableVertexAttribArray(index) *)
(* act on the vertex array object that is bound, the default one (null)    *)
(* included.                                                               *)
glEnableVertexAttribArray(w, index) ==
    LET c == Call(w, "enableVertexAttribArray", index, 0) IN
    IF w.g.lost THEN c ELSE [c EXCEPT !.g.attribEnabled[w.g.vertexArray] = @ \cup {index}]

glDisableVertexAttribArray(w, index) ==
    LET c == Call(w, "disableVertexAttribArray", index, 0) IN
    IF w.g.lost THEN c ELSE [c EXCEPT !.g.attribEnabled[w.g.vertexArray] = @ \ {index}]

(* gl.bindFramebuffer(gl.FRAMEBUFFER, fb) sets the draw and the read       *)
(* framebuffer; READ_FRAMEBUFFER and DRAW_FRAMEBUFFER set one of them.     *)
glBindFramebuffer(w, fb) ==
    LET c == Call(w, "bindFramebuffer", fb, 0) IN
    IF w.g.lost THEN c
    ELSE [c EXCEPT !.g.drawFramebuffer = fb, !.g.readFramebuffer = fb]

glBindReadFramebuffer(w, fb) ==
    LET c == Call(w, "bindFramebuffer", fb, 1) IN
    IF w.g.lost THEN c ELSE [c EXCEPT !.g.readFramebuffer = fb]

glBindDrawFramebuffer(w, fb) ==
    LET c == Call(w, "bindFramebuffer", fb, 2) IN
    IF w.g.lost THEN c ELSE [c EXCEPT !.g.drawFramebuffer = fb]

glUseProgram(w, program) ==
    LET c == Call(w, "useProgram", program, 0) IN
    IF w.g.lost THEN c ELSE [c EXCEPT !.g.program = program]

(* gl.createProgram() and gl.deleteProgram(program): the context keeps the *)
(* programs it holds.                                                      *)
glCreateProgram(w, program) ==
    LET c == Call(w, "createProgram", program, 0) IN
    IF w.g.lost THEN c ELSE [c EXCEPT !.g.programs = @ \cup {program}]

glDeleteProgram(w, program) ==
    LET c == Call(w, "deleteProgram", program, 0) IN
    IF w.g.lost THEN c ELSE [c EXCEPT !.g.programs = @ \ {program}]

glActiveTexture(w, channel) ==
    LET c == Call(w, "activeTexture", channel, 0) IN
    IF w.g.lost THEN c ELSE [c EXCEPT !.g.activeTexture = channel]

glBindTexture(w, target, resource) ==
    LET c == Call(w, "bindTexture", target, resource) IN
    IF w.g.lost THEN c
    ELSE [c EXCEPT !.g.texture[w.g.activeTexture] = resource]

glViewport(w, width, height) ==
    LET c == Call(w, "viewport", width, height) IN
    IF w.g.lost THEN c ELSE [c EXCEPT !.g.viewport = <<0, 0, width, height>>]

(* The context as the host creates it, and as it is again after a          *)
(* restoration.                                                            *)
(* The extensions a WebGL 1 context may offer that the probe asks for. *)
Extensions ==
    {"OES_texture_float", "OES_texture_float_linear", "OES_texture_half_float",
     "OES_texture_half_float_linear", "EXT_sRGB"}

getExtension(g, name) == name \in g.extensions

FreshContext(generation, uintIndices) ==
    [lost |-> FALSE,
     restorable |-> FALSE,
     generation |-> generation,
     uintIndices |-> uintIndices,
     version |-> 1,
     extensions |-> {},
     arrayBuffer |-> Null,
     elementBuffer |-> [v \in Vaos \cup {Null} |-> Null],
     vertexArray |-> Null,
     attribEnabled |-> [v \in Vaos \cup {Null} |-> {}],
     drawFramebuffer |-> Null,
     readFramebuffer |-> Null,
     program |-> Null,
     programs |-> {},
     activeTexture |-> 0,
     texture |-> [c \in Channels |-> Null],
     viewport |-> <<0, 0, 0, 0>>]

----------------------------------------------------------------------------
(* Vertex buffers and effects the consumers hand to the engine.            *)

FLOAT == 5126
INT == 5124
UNSIGNED_SHORT == 5123
UNSIGNED_INT == 5125
AttribLocations == {0, 1}             \* 0 .. caps.maxVertexAttribs - 1

(* effect.getAttributesNames() paired with effect.getAttributeLocation(i): *)
(* effect 1 declares position, normal and uv and its program uses position *)
(* and uv; effect 2 declares position and uv and its program uses both,    *)
(* at swapped locations.                                                   *)
EffectAttributes(effect) ==
    IF effect = 1
    THEN << [name |-> "position", location |-> 0],
            [name |-> "normal", location |-> -1],
            [name |-> "uv", location |-> 1] >>
    ELSE << [name |-> "position", location |-> 1],
            [name |-> "uv", location |-> 0] >>

(* effect.getPipelineContext().program *)
EffectProgram(effect) == effect

(* effect.getSamplers() paired with effect.getUniform(sampler): effect 1   *)
(* has one sampler, whose uniform is uniform 1; effect 2 has none.         *)
EffectSamplerUniforms(effect) == IF effect = 1 THEN <<1>> ELSE << >>
Uniforms == {1}

(* The vertexBuffers dictionaries: kind -> VertexBuffer or Null.  Set 1    *)
(* supplies position and normal from buffer 1 and no uv; set 2 supplies    *)
(* position and uv from buffer 2.                                          *)
VertexBufferSets == {1, 2}
NoVertexBuffer == [buffer |-> Null, size |-> 0, type |-> FLOAT, normalized |-> FALSE,
                   byteStride |-> 0, byteOffset |-> 0]
VertexBuffers(set, kind) ==
    IF set = 1 /\ kind = "position"
    THEN [buffer |-> 1, size |-> 3, type |-> FLOAT, normalized |-> FALSE,
          byteStride |-> 24, byteOffset |-> 0]
    ELSE IF set = 1 /\ kind = "normal"
    THEN [buffer |-> 1, size |-> 3, type |-> FLOAT, normalized |-> FALSE,
          byteStride |-> 24, byteOffset |-> 12]
    ELSE IF set = 2 /\ kind = "position"
    THEN [buffer |-> 2, size |-> 3, type |-> FLOAT, normalized |-> FALSE,
          byteStride |-> 20, byteOffset |-> 0]
    ELSE IF set = 2 /\ kind = "uv"
    THEN [buffer |-> 2, size |-> 2, type |-> FLOAT, normalized |-> TRUE,
          byteStride |-> 20, byteOffset |-> 12]
    ELSE NoVertexBuffer

(* The DataBuffer objects a vertexBuffers dictionary refers to. *)
BuffersOf(set) == IF set = 1 THEN {1} ELSE {2}

----------------------------------------------------------------------------
(* VBOs and vertex array objects.                                          *)

_unbindVertexArrayObject(w) ==
    IF w.e._cachedVertexArrayObject \in {Null, Undefined}
    THEN w
    ELSE glBindVertexArray([w EXCEPT !.e._cachedVertexArrayObject = Null], Null)

(* _bindBuffer without the store into _currentBoundBuffer. *)
_bindBufferForgetsBinding(w, buffer, target) ==
    IF w.e._vaoRecordInProgress \/ w.e._currentBoundBuffer[target] # buffer
    THEN glBindBuffer(w, target, buffer)
    ELSE w

_bindBuffer(w, buffer, target) ==
    IF w.e._vaoRecordInProgress \/ w.e._currentBoundBuffer[target] # buffer
    THEN [glBindBuffer(w, target, buffer) EXCEPT !.e._currentBoundBuffer[target] = buffer]
    ELSE w

bindArrayBuffer(w, buffer) ==
    _bindBuffer(IF ~w.e._vaoRecordInProgress THEN _unbindVertexArrayObject(w) ELSE w,
                buffer, ARRAY_BUFFER)

bindIndexBuffer(w, buffer) ==
    _bindBuffer(IF ~w.e._vaoRecordInProgress THEN _unbindVertexArrayObject(w) ELSE w,
                buffer, ELEMENT_ARRAY_BUFFER)

(* _resetVertexBufferBinding that leaves the array buffer bound. *)
_resetVertexBufferBindingKeepsBuffer(w) == [w EXCEPT !.e._cachedVertexBuffers = Null]

_resetVertexBufferBinding(w) ==
    [bindArrayBuffer(w, Null) EXCEPT !.e._cachedVertexBuffers = Null]

_resetIndexBufferBinding(w) ==
    [bindIndexBuffer(w, Null) EXCEPT !.e._cachedIndexBuffer = Null]

(* _vertexAttribPointer that does not compare the offset. *)
_vertexAttribPointerIgnoresOffset(w, buffer, indx, size, type, normalized, stride, offset) ==
    LET pointer == w.e._currentBufferPointers[indx]
        changed == \/ ~pointer.active
                   \/ pointer.buffer # buffer
                   \/ pointer.size # size
                   \/ pointer.type # type
                   \/ pointer.normalized # normalized
                   \/ pointer.stride # stride
        w1 == [w EXCEPT !.e._currentBufferPointers[indx] =
                   [active |-> TRUE, index |-> indx, size |-> size, type |-> type,
                    normalized |-> normalized, stride |-> stride, offset |-> offset,
                    buffer |-> buffer]]
    IN  IF changed \/ w.e._vaoRecordInProgress
        THEN Call(bindArrayBuffer(w1, buffer), "vertexAttribPointer", indx, buffer)
        ELSE w1

_vertexAttribPointer(w, buffer, indx, size, type, normalized, stride, offset) ==
    IF indx \notin DOMAIN w.e._currentBufferPointers
    THEN w
    ELSE
    LET pointer == w.e._currentBufferPointers[indx]
        changed == \/ ~pointer.active
                   \/ pointer.buffer # buffer
                   \/ pointer.size # size
                   \/ pointer.type # type
                   \/ pointer.normalized # normalized
                   \/ pointer.stride # stride
                   \/ pointer.offset # offset
        w1 == [w EXCEPT !.e._currentBufferPointers[indx] =
                   [active |-> TRUE, index |-> indx, size |-> size, type |-> type,
                    normalized |-> normalized, stride |-> stride, offset |-> offset,
                    buffer |-> buffer]]
    IN  IF changed \/ w.e._vaoRecordInProgress
        THEN Call(bindArrayBuffer(w1, buffer),
                  IF type \in {UNSIGNED_INT, INT}
                  THEN "vertexAttribIPointer" ELSE "vertexAttribPointer",
                  indx, buffer)
        ELSE w1

disableAttributeByIndex(w, attributeLocation) ==
    [glDisableVertexAttribArray(w, attributeLocation)
        EXCEPT !.e._vertexAttribArraysEnabled[attributeLocation] = FALSE,
               !.e._currentBufferPointers[attributeLocation].active = FALSE]

RECURSIVE disableAllFrom(_, _)
disableAllFrom(w, i) ==
    IF i >= w.e._caps.maxVertexAttribs THEN w
    ELSE disableAllFrom(disableAttributeByIndex(w, i), i + 1)

RECURSIVE disableEnabledFrom(_, _)
disableEnabledFrom(w, i) ==
    IF i >= w.e._caps.maxVertexAttribs THEN w
    ELSE disableEnabledFrom(IF w.e._vertexAttribArraysEnabled[i]
                            THEN disableAttributeByIndex(w, i) ELSE w, i + 1)

unbindAllAttributes(w) ==
    IF w.e._mustWipeVertexAttributes
    THEN disableAllFrom([w EXCEPT !.e._mustWipeVertexAttributes = FALSE], 0)
    ELSE disableEnabledFrom(w, 0)

_bindIndexBufferWithCache(w, indexBuffer) ==
    IF indexBuffer = Null THEN w
    ELSE IF w.e._cachedIndexBuffer # indexBuffer
    THEN [bindIndexBuffer([w EXCEPT !.e._cachedIndexBuffer = indexBuffer], indexBuffer)
            EXCEPT !.e._uintIndicesCurrentlySet = w.h.buffers[indexBuffer].is32Bits]
    ELSE w

RECURSIVE bindAttributesFrom(_, _, _, _)
bindAttributesFrom(w, vertexBuffers, effect, index) ==
    IF index > Len(EffectAttributes(effect)) THEN w
    ELSE
    LET order == EffectAttributes(effect)[index].location
        vertexBuffer == VertexBuffers(vertexBuffers, EffectAttributes(effect)[index].name)
        w1 == glEnableVertexAttribArray(w, order)
        w2 == IF ~w.e._vaoRecordInProgress
              THEN [w1 EXCEPT !.e._vertexAttribArraysEnabled[order] = TRUE] ELSE w1
        w3 == _vertexAttribPointer(w2, vertexBuffer.buffer, order, vertexBuffer.size,
                                   vertexBuffer.type, vertexBuffer.normalized,
                                   vertexBuffer.byteStride, vertexBuffer.byteOffset)
    IN  bindAttributesFrom(IF order >= 0 /\ vertexBuffer # NoVertexBuffer THEN w3 ELSE w,
                           vertexBuffers, effect, index + 1)

_bindVertexBuffersAttributes(w, vertexBuffers, effect) ==
    bindAttributesFrom(
        unbindAllAttributes(IF ~w.e._vaoRecordInProgress
                            THEN _unbindVertexArrayObject(w) ELSE w),
        vertexBuffers, effect, 1)

(* gl.createVertexArray() returns the handle vao; a lost context returns   *)
(* null and the method throws.                                             *)
recordVertexArrayObject(w, vao, vertexBuffers, indexBuffer, effect) ==
    LET w0 == Call(w, "createVertexArray", IF w.g.lost THEN Null ELSE vao, 0) IN
    IF w.g.lost
    THEN [w0 EXCEPT !.t.threw = TRUE]
    ELSE
    LET w1 == glBindVertexArray([w0 EXCEPT !.e._vaoRecordInProgress = TRUE], vao)
        w2 == _bindVertexBuffersAttributes(
                  [w1 EXCEPT !.e._mustWipeVertexAttributes = TRUE], vertexBuffers, effect)
        w3 == bindIndexBuffer(w2, indexBuffer)
    IN  glBindVertexArray([w3 EXCEPT !.e._vaoRecordInProgress = FALSE,
                                     !.h.vaos[vao] = [recorded |-> TRUE,
                                                      indexBuffer |-> indexBuffer]], Null)

bindVertexArrayObject(w, vertexArrayObject, indexBuffer) ==
    IF w.e._cachedVertexArrayObject # vertexArrayObject
    THEN [glBindVertexArray([w EXCEPT !.e._cachedVertexArrayObject = vertexArrayObject],
                            vertexArrayObject)
            EXCEPT !.e._cachedVertexBuffers = Null,
                   !.e._cachedIndexBuffer = Null,
                   !.e._uintIndicesCurrentlySet =
                       (indexBuffer # Null /\ w.h.buffers[indexBuffer].is32Bits),
                   !.e._mustWipeVertexAttributes = TRUE]
    ELSE w

bindBuffers(w, vertexBuffers, indexBuffer, effect) ==
    _bindIndexBufferWithCache(
        IF w.e._cachedVertexBuffers # vertexBuffers
           \/ w.e._cachedEffectForVertexBuffers # effect
        THEN _bindVertexBuffersAttributes(
                 [w EXCEPT !.e._cachedVertexBuffers = vertexBuffers,
                           !.e._cachedEffectForVertexBuffers = effect],
                 vertexBuffers, effect)
        ELSE w,
        indexBuffer)

(* A DataBuffer handed to bindBuffersDirectly is stored in               *)
(* _cachedVertexBuffers, where it is an object different from every        *)
(* vertexBuffers dictionary.                                               *)
AsVertexBuffers(vertexBuffer) == 10 + vertexBuffer

RECURSIVE bindDeclarationFrom(_, _, _, _, _, _, _)
bindDeclarationFrom(w, vertexBuffer, vertexDeclaration, vertexStrideSize, effect, index, offset) ==
    IF index > Len(EffectAttributes(effect)) THEN w
    ELSE IF index > Len(vertexDeclaration)
    THEN bindDeclarationFrom(w, vertexBuffer, vertexDeclaration, vertexStrideSize, effect,
                             index + 1, offset)
    ELSE
    LET order == EffectAttributes(effect)[index].location
        w1 == [glEnableVertexAttribArray(w, order)
                  EXCEPT !.e._vertexAttribArraysEnabled[order] = TRUE]
        w2 == _vertexAttribPointer(w1, vertexBuffer, order, vertexDeclaration[index],
                                   FLOAT, FALSE, vertexStrideSize, offset)
    IN  bindDeclarationFrom(IF order >= 0 THEN w2 ELSE w, vertexBuffer, vertexDeclaration,
                            vertexStrideSize, effect, index + 1,
                            offset + vertexDeclaration[index] * 4)

bindBuffersDirectly(w, vertexBuffer, indexBuffer, vertexDeclaration, vertexStrideSize, effect) ==
    _bindIndexBufferWithCache(
        IF w.e._cachedVertexBuffers # AsVertexBuffers(vertexBuffer)
           \/ w.e._cachedEffectForVertexBuffers # effect
        THEN bindDeclarationFrom(
                 unbindAllAttributes(_unbindVertexArrayObject(
                     [w EXCEPT !.e._cachedVertexBuffers = AsVertexBuffers(vertexBuffer),
                               !.e._cachedEffectForVertexBuffers = effect])),
                 vertexBuffer, vertexDeclaration, vertexStrideSize, effect, 1, 0)
        ELSE w,
        indexBuffer)

RECURSIVE unbindInstancesFrom(_, _, _)
unbindInstancesFrom(w, i, boundBuffer) ==
    IF i > Len(w.e._currentInstanceLocations) THEN w
    ELSE
    LET instancesBuffer == w.e._currentInstanceBuffers[i]
        rebind == boundBuffer # instancesBuffer /\ w.h.buffers[instancesBuffer].references # 0
        w1 == IF rebind THEN bindArrayBuffer(w, instancesBuffer) ELSE w
    IN  unbindInstancesFrom(
            Call(w1, "vertexAttribDivisor", w.e._currentInstanceLocations[i], 0),
            i + 1, IF rebind THEN instancesBuffer ELSE boundBuffer)

unbindInstanceAttributes(w) ==
    [unbindInstancesFrom(w, 1, Undefined)
        EXCEPT !.e._currentInstanceBuffers = << >>,
               !.e._currentInstanceLocations = << >>]

(* The stride bindInstancesBuffer computes: four bytes for every component *)
(* of every attribute.                                                     *)
RECURSIVE InstancesStride(_, _)
InstancesStride(attributesInfo, i) ==
    IF i > Len(attributesInfo) THEN 0
    ELSE attributesInfo[i].attributeSize * 4 + InstancesStride(attributesInfo, i + 1)

(* Every InstancingAttributeInfo carries its index, so that none is looked *)
(* up by name in the current effect; none carries a divisor.               *)
RECURSIVE bindInstancesFrom(_, _, _, _, _)
bindInstancesFrom(w, instancesBuffer, attributesInfo, stride, i) ==
    IF i > Len(attributesInfo) THEN w
    ELSE
    LET ai == attributesInfo[i]
        w1 == IF ~w.e._vertexAttribArraysEnabled[ai.index]
              THEN [glEnableVertexAttribArray(w, ai.index)
                      EXCEPT !.e._vertexAttribArraysEnabled[ai.index] = TRUE]
              ELSE w
        w2 == _vertexAttribPointer(w1, instancesBuffer, ai.index, ai.attributeSize,
                                   IF ai.attributeType = Undefined
                                   THEN FLOAT ELSE ai.attributeType,
                                   ai.normalized, stride, ai.offset)
        w3 == [Call(w2, "vertexAttribDivisor", ai.index, 1)
                 EXCEPT !.e._currentInstanceLocations = Append(@, ai.index),
                        !.e._currentInstanceBuffers = Append(@, instancesBuffer)]
    IN  bindInstancesFrom(IF ai.index < 0 THEN w ELSE w3, instancesBuffer, attributesInfo,
                          stride, i + 1)

bindInstancesBuffer(w, instancesBuffer, attributesInfo, computeStride) ==
    bindInstancesFrom(bindArrayBuffer(w, instancesBuffer), instancesBuffer, attributesInfo,
                      IF computeStride THEN InstancesStride(attributesInfo, 1) ELSE 0, 1)

----------------------------------------------------------------------------
(* Programs and textures.                                                  *)

(* _setProgram that does not compare the program with the cached one. *)
_setProgramAlways(w, program) ==
    [glUseProgram(w, program) EXCEPT !.e._currentProgram = program]

(* The imported _setProgram(program, gl) is gl.useProgram(program). *)
_setProgram(w, program) ==
    IF w.e._currentProgram # program
    THEN [glUseProgram(w, program) EXCEPT !.e._currentProgram = program]
    ELSE w

RECURSIVE bindSamplersFrom(_, _, _)
bindSamplersFrom(w, effect, index) ==
    IF index >= Len(EffectSamplerUniforms(effect)) THEN w
    ELSE bindSamplersFrom(
             [w EXCEPT !.e._boundUniforms[index] = EffectSamplerUniforms(effect)[index + 1]],
             effect, index + 1)

bindSamplers(w, effect) ==
    [bindSamplersFrom(_setProgram(w, EffectProgram(effect)), effect, 0)
        EXCEPT !.e._currentEffect = Null]

(* effect.onBind and effect._onBindObservable belong to the consumer. *)
enableEffect(w, effect) ==
    IF effect = Null \/ effect = w.e._currentEffect
    THEN w
    ELSE [bindSamplers([w EXCEPT !.e._stencilStateComposer.stencilMaterial = NoString],
                       effect)
            EXCEPT !.e._currentEffect = effect]

_activateCurrentTexture(w) ==
    IF w.e._currentTextureChannel # w.e._activeChannel
    THEN [glActiveTexture(w, w.e._activeChannel)
            EXCEPT !.e._currentTextureChannel = w.e._activeChannel]
    ELSE w

_bindSamplerUniformToChannel(w, sourceSlot, destination) ==
    LET uniform == w.e._boundUniforms[sourceSlot] IN
    IF uniform = Undefined \/ w.h.uniforms[uniform]._currentState = destination
    THEN w
    ELSE [Call(w, "uniform1i", uniform, destination)
            EXCEPT !.h.uniforms[uniform]._currentState = destination]

(* texture.isMultiview: texture 3 is a multiview texture, which only the   *)
(* multiview scene holds.                                                  *)
MultiviewTextures == {3}

(* isMultiview read as false for every texture. *)
IsMultiviewNever(texture) == FALSE

IsMultiview(texture) == texture \in MultiviewTextures

_bindTextureDirectly(w, target, texture, forTextureDataUpdate, force) ==
    LET isTextureForRendering ==
            texture # Null /\ w.h.textures[texture]._associatedChannel > -1
        w1 == IF forTextureDataUpdate /\ isTextureForRendering
              THEN [w EXCEPT !.e._activeChannel = w.h.textures[texture]._associatedChannel]
              ELSE w
        currentTextureBound == w1.e._boundTexturesCache[w1.e._activeChannel]
        w2 == _activateCurrentTexture(w1)
        w3 == [glBindTexture(w2, target, texture)
                 EXCEPT !.e._boundTexturesCache[w1.e._activeChannel] = texture]
        w4 == IF texture # Null
              THEN [w3 EXCEPT !.h.textures[texture]._associatedChannel = w1.e._activeChannel]
              ELSE w3
        w5 == IF currentTextureBound # texture \/ force THEN w4
              ELSE IF forTextureDataUpdate THEN w2
              ELSE w1
    IN  IF (currentTextureBound # texture \/ force) /\ texture # Null /\ IsMultiview(texture)
        THEN [w2 EXCEPT !.t.threw = TRUE]
        ELSE IF isTextureForRendering /\ ~forTextureDataUpdate
        THEN _bindSamplerUniformToChannel(
                 w5, w5.h.textures[texture]._associatedChannel, w5.e._activeChannel)
        ELSE w5

(* this._getTextureTarget(texture) of a 2D texture *)
_bindTexture(w, channel, texture) ==
    LET w1 == IF texture # Null
              THEN [w EXCEPT !.h.textures[texture]._associatedChannel = channel]
              ELSE w
    IN  _bindTextureDirectly([w1 EXCEPT !.e._activeChannel = channel],
                             TEXTURE_2D, texture, FALSE, FALSE)

(* webGLVersion > 1 adds TEXTURE_3D and TEXTURE_2D_ARRAY, each a bind of   *)
(* null on the channel like the two here.                                  *)
RECURSIVE unbindAllTexturesFrom(_, _)
unbindAllTexturesFrom(w, channel) ==
    IF channel >= w.e._maxSimultaneousTextures THEN w
    ELSE unbindAllTexturesFrom(
             _bindTextureDirectly(
                 _bindTextureDirectly([w EXCEPT !.e._activeChannel = channel],
                                      TEXTURE_2D, Null, FALSE, FALSE),
                 TEXTURE_CUBE_MAP, Null, FALSE, FALSE),
             channel + 1)

unbindAllTextures(w) == unbindAllTexturesFrom(w, 0)

(* _createTexture that returns whatever the driver returned. *)
_createTextureUnchecked(w) ==
    LET texture == IF w.g.lost THEN Null ELSE w.h.hardwareTextures + 1
        w0 == Call(w, "createTexture", texture, 0)
    IN  IF texture = Null
        THEN [w0 EXCEPT !.t.result = texture]
        ELSE [w0 EXCEPT !.h.hardwareTextures = texture, !.t.result = texture]

(* gl.createTexture() returns the next unused handle, or null on a lost    *)
(* context.                                                                *)
_createTexture(w) ==
    LET texture == IF w.g.lost THEN Null ELSE w.h.hardwareTextures + 1
        w0 == Call(w, "createTexture", texture, 0)
    IN  IF texture = Null
        THEN [w0 EXCEPT !.t.threw = TRUE]
        ELSE [w0 EXCEPT !.h.hardwareTextures = texture, !.t.result = texture]

_createHardwareTexture(w) == _createTexture(w)

(* The InternalTexture objects _createInternalTexture may construct. *)
MaxCreatedTextures == 1
CreatedTextures == 4..(3 + MaxCreatedTextures)

(* new InternalTexture(engine, source): the next texture object, which     *)
(* owns a hardware texture the engine creates for it.                      *)
InternalTexture(w) ==
    LET texture == 4 + Cardinality({x \in CreatedTextures : w.h.internalTextures[x].isReady})
        w1 == _createHardwareTexture(w)
    IN  IF w1.t.threw THEN w1
        ELSE [w1 EXCEPT !.h.internalTextures[texture]._hardwareTexture = w1.t.result,
                        !.t.result = texture]

(* _getWebGLTextureType of the types the model creates textures of. *)
_getWebGLTextureType(e, type) ==
    IF e._webGLVersion = 1
    THEN CASE type = "TEXTURETYPE_FLOAT" -> "FLOAT"
           [] type = "TEXTURETYPE_HALF_FLOAT" -> "HALF_FLOAT_OES"
           [] OTHER -> "UNSIGNED_BYTE"
    ELSE CASE type = "TEXTURETYPE_FLOAT" -> "FLOAT"
           [] type = "TEXTURETYPE_HALF_FLOAT" -> "HALF_FLOAT"
           [] OTHER -> "UNSIGNED_BYTE"

(* _getRGBABufferInternalSizedFormat that never resolves to an sRGB format. *)
_getRGBABufferInternalSizedFormatLinear(e, type, format, useSRGBBuffer) ==
    IF e._webGLVersion = 1 THEN "RGBA" ELSE "RGBA8"

(* The lookup table for the byte, float and half-float types and the red,  *)
(* RGB and RGBA formats; "undefined" is a format not given.                *)
_getRGBABufferInternalSizedFormat(e, type, format, useSRGBBuffer) ==
    IF e._webGLVersion = 1
    THEN IF format = "TEXTUREFORMAT_RGB"
         THEN (IF useSRGBBuffer THEN "SRGB" ELSE "RGB")
         ELSE "RGBA"
    ELSE CASE type = "TEXTURETYPE_UNSIGNED_BYTE" ->
                (CASE format = "TEXTUREFORMAT_RED" -> "R8"
                   [] format = "TEXTUREFORMAT_RGB" ->
                          (IF useSRGBBuffer THEN "SRGB8" ELSE "RGB8")
                   [] format = "TEXTUREFORMAT_RGBA" ->
                          (IF useSRGBBuffer THEN "SRGB8_ALPHA8" ELSE "RGBA8")
                   [] OTHER -> "RGBA8")
           [] type = "TEXTURETYPE_FLOAT" ->
                (CASE format = "TEXTUREFORMAT_RED" -> "R32F"
                   [] format = "TEXTUREFORMAT_RGB" -> "RGB32F"
                   [] OTHER -> "RGBA32F")
           [] type = "TEXTURETYPE_HALF_FLOAT" ->
                (CASE format = "TEXTUREFORMAT_RED" -> "R16F"
                   [] format = "TEXTUREFORMAT_RGB" -> "RGB16F"
                   [] OTHER -> "RGBA16F")
           [] OTHER -> (IF useSRGBBuffer THEN "SRGB8_ALPHA8" ELSE "RGBA8")

(* option === undefined ? default : option *)
OrDefault(option, default) == IF option = "undefined" THEN default ELSE option

(* _createInternalTexture that creates float textures as they were asked. *)
_createInternalTextureWithoutDegrading(w, options) ==
    LET type == OrDefault(options.type, "TEXTURETYPE_UNSIGNED_BYTE")
        samplingMode == OrDefault(options.samplingMode, "TEXTURE_TRILINEAR_SAMPLINGMODE")
        format == OrDefault(options.format, "TEXTUREFORMAT_RGBA")
        useSRGBBuffer ==
            options.useSRGBBuffer /\ w.e._caps.supportSRGBBuffers /\ w.e._webGLVersion > 1
        w1 == InternalTexture(w)
        texture == w1.t.result
        w2 == _bindTextureDirectly(w1, TEXTURE_2D, texture, FALSE, FALSE)
        w3 == Call(Call(w2, "texImage2D",
                        _getRGBABufferInternalSizedFormat(w.e, type, format, useSRGBBuffer),
                        _getWebGLTextureType(w.e, type)),
                   "texParameteri", TEXTURE_2D, samplingMode)
        w4 == _bindTextureDirectly(w3, TEXTURE_2D, Null, FALSE, FALSE)
    IN  IF w1.t.threw THEN w1
        ELSE [w4 EXCEPT !.h.internalTextures[texture] =
                            [@ EXCEPT !._useSRGBBuffer = useSRGBBuffer, !.isReady = TRUE,
                                      !.samplingMode = samplingMode, !.type = type,
                                      !.format = format],
                        !.e._internalTexturesCache = @ \cup {texture},
                        !.t.result = texture]

(* A 2D colour texture of samples 1 without mipmaps: options.type,         *)
(* options.samplingMode and options.format may be "undefined". The four    *)
(* texParameteri calls are one call here, of the sampling mode the filters *)
(* are computed from.                                                      *)
_createInternalTexture(w, options) ==
    LET type0 == OrDefault(options.type, "TEXTURETYPE_UNSIGNED_BYTE")
        samplingMode0 == OrDefault(options.samplingMode, "TEXTURE_TRILINEAR_SAMPLINGMODE")
        format == OrDefault(options.format, "TEXTUREFORMAT_RGBA")
        useSRGBBuffer ==
            options.useSRGBBuffer /\ w.e._caps.supportSRGBBuffers /\ w.e._webGLVersion > 1
        samplingMode ==
            IF type0 = "TEXTURETYPE_FLOAT" /\ ~w.e._caps.textureFloatLinearFiltering
            THEN "TEXTURE_NEAREST_SAMPLINGMODE"
            ELSE IF type0 = "TEXTURETYPE_HALF_FLOAT"
                    /\ ~w.e._caps.textureHalfFloatLinearFiltering
            THEN "TEXTURE_NEAREST_SAMPLINGMODE"
            ELSE samplingMode0
        type == IF type0 = "TEXTURETYPE_FLOAT" /\ ~w.e._caps.textureFloat
                THEN "TEXTURETYPE_UNSIGNED_BYTE"
                ELSE type0
        w1 == InternalTexture(w)
        texture == w1.t.result
        w2 == _bindTextureDirectly(w1, TEXTURE_2D, texture, FALSE, FALSE)
        w3 == Call(Call(w2, "texImage2D",
                        _getRGBABufferInternalSizedFormat(w.e, type, format, useSRGBBuffer),
                        _getWebGLTextureType(w.e, type)),
                   "texParameteri", TEXTURE_2D, samplingMode)
        w4 == _bindTextureDirectly(w3, TEXTURE_2D, Null, FALSE, FALSE)
    IN  IF w1.t.threw THEN w1
        ELSE [w4 EXCEPT !.h.internalTextures[texture] =
                            [@ EXCEPT !._useSRGBBuffer = useSRGBBuffer, !.isReady = TRUE,
                                      !.samplingMode = samplingMode, !.type = type,
                                      !.format = format],
                        !.e._internalTexturesCache = @ \cup {texture},
                        !.t.result = texture]

(* texture?.release(): the hardware texture is deleted. *)
_deleteTexture(w, texture) == [w EXCEPT !.h.textures[texture].released = TRUE]

(* _releaseTexture that leaves the channels as they are. *)
_releaseTextureKeepsChannels(w, texture) ==
    [_deleteTexture(w, texture) EXCEPT !.e._internalTexturesCache = @ \ {texture}]

(* The textures here have no LOD textures and no irradiance texture. *)
_releaseTexture(w, texture) ==
    [unbindAllTextures(_deleteTexture(w, texture))
        EXCEPT !.e._internalTexturesCache = @ \ {texture}]

(* AbstractEngine.resetTextureCache: every channel of the bound-texture    *)
(* cache and the current channel go back to unset.                         *)
resetTextureCache(w) ==
    [w EXCEPT !.e._boundTexturesCache = [c \in DOMAIN @ |-> Undefined],
              !.e._currentTextureChannel = -1]

----------------------------------------------------------------------------
(* Framebuffers.                                                           *)

_viewport(w, width, height) ==
    IF w.e._viewportCached # <<0, 0, width, height>>
    THEN glViewport([w EXCEPT !.e._viewportCached = <<0, 0, width, height>>], width, height)
    ELSE w

_bindUnboundFramebuffer(w, framebuffer) ==
    IF w.e._currentFramebuffer # framebuffer
    THEN [glBindFramebuffer(w, framebuffer) EXCEPT !.e._currentFramebuffer = framebuffer]
    ELSE w

resolveFramebuffer(w, texture) ==
    LET rtWrapper == RenderTargetWrapper(texture) IN
    IF rtWrapper._MSAAFramebuffer = Null \/ rtWrapper.isMulti
    THEN w
    ELSE Call(glBindDrawFramebuffer(glBindReadFramebuffer(w, rtWrapper._MSAAFramebuffer),
                                    rtWrapper._framebuffer),
              "blitFramebuffer", rtWrapper.width, rtWrapper.width)

generateMipmaps(w, texture) ==
    _bindTextureDirectly(
        Call(_bindTextureDirectly(w, TEXTURE_2D, texture, TRUE, FALSE),
             "generateMipmap", TEXTURE_2D, 0),
        TEXTURE_2D, Null, FALSE, FALSE)

generateMipMapsFramebuffer(w, texture) ==
    IF ~RenderTargetWrapper(texture).isMulti /\ RenderTargetWrapper(texture).generateMipMaps
    THEN generateMipmaps(w, RenderTargetWrapper(texture).texture)
    ELSE w

(* disableAutomaticMSAAResolve is false and no target is a multi render    *)
(* target.                                                                 *)
_resolveAndGenerateMipMapsFramebuffer(w, texture, disableGenerateMipMaps) ==
    LET w1 == resolveFramebuffer(w, texture) IN
    IF ~disableGenerateMipMaps THEN generateMipMapsFramebuffer(w1, texture) ELSE w1

unBindFramebuffer(w, texture, disableGenerateMipMaps, onBeforeUnbind) ==
    LET w1 == _resolveAndGenerateMipMapsFramebuffer(
                  [w EXCEPT !.e._currentRenderTarget = Null], texture, disableGenerateMipMaps)
        w2 == IF onBeforeUnbind /\ RenderTargetWrapper(texture)._MSAAFramebuffer # Null
              THEN _bindUnboundFramebuffer(w1, RenderTargetWrapper(texture)._framebuffer)
              ELSE w1
    IN  _bindUnboundFramebuffer(w2, Null)

(* Set various states to the webGL context: the culling state and the    *)
(* stencil state of the material; force is unset.                          *)
setState(w, culling, stencil) ==
    [w EXCEPT !.e._depthCullingState.cull = Some(culling),
              !.e._stencilStateComposer.stencilMaterial = stencil]

(* _stencilStateComposer.reset(), _depthCullingState.reset() followed by   *)
(* depthFunc = LEQUAL: every value of the state objects goes back to its   *)
(* initial one.  No operation of the engine changes the alpha state, whose *)
(* reset is therefore left out.                                            *)
StateReset(w) ==
    [w EXCEPT !.e._stencilStateComposer.stencilMaterial = NoString,
              !.e._depthCullingState = [cull |-> NoString, depthFunc |-> Some("LEQUAL")]]

(* wipeCaches that honours preventCacheWipeBetweenFrames even when asked   *)
(* to clear everything.                                                    *)
wipeCachesHonoursPrevention(w, bruteForce) ==
    IF w.e.preventCacheWipeBetweenFrames
    THEN w
    ELSE
    LET w1 == _unbindVertexArrayObject(
                  [w EXCEPT !.e._currentEffect = Null,
                            !.e._viewportCached = <<0, 0, 0, 0>>])
        w2 == unbindAllAttributes(
                  [Call(Call(StateReset(resetTextureCache(
                                            [w1 EXCEPT !.e._currentProgram = Null])),
                             "pixelStorei", 0, 0), "pixelStorei", 1, 0)
                     EXCEPT !.e._colorWriteChanged = TRUE,
                            !.e._unpackFlipYCached = NoString,
                            !.e._mustWipeVertexAttributes = TRUE])
        w3 == _resetVertexBufferBinding(IF bruteForce THEN w2 ELSE w1)
    IN  bindIndexBuffer([w3 EXCEPT !.e._cachedIndexBuffer = Null,
                                   !.e._cachedEffectForVertexBuffers = Null], Null)

(* wipeCaches without the reset of _cachedIndexBuffer. *)
wipeCachesKeepsIndexBuffer(w, bruteForce) ==
    IF w.e.preventCacheWipeBetweenFrames /\ ~bruteForce
    THEN w
    ELSE
    LET w1 == _unbindVertexArrayObject(
                  [w EXCEPT !.e._currentEffect = Null,
                            !.e._viewportCached = <<0, 0, 0, 0>>])
        w2 == unbindAllAttributes(
                  [Call(Call(StateReset(resetTextureCache(
                                            [w1 EXCEPT !.e._currentProgram = Null])),
                             "pixelStorei", 0, 0), "pixelStorei", 1, 0)
                     EXCEPT !.e._colorWriteChanged = TRUE,
                            !.e._unpackFlipYCached = NoString,
                            !.e._mustWipeVertexAttributes = TRUE])
        w3 == _resetVertexBufferBinding(IF bruteForce THEN w2 ELSE w1)
    IN  bindIndexBuffer([w3 EXCEPT !.e._cachedEffectForVertexBuffers = Null], Null)

_unpackFlipY(w, value) ==
    IF w.e._unpackFlipYCached # Some(value)
    THEN LET w1 == Call(w, "pixelStorei", "UNPACK_FLIP_Y_WEBGL",
                         IF value THEN 1 ELSE 0)
         IN  IF w.e.enableUnpackFlipYCached
             THEN [w1 EXCEPT !.e._unpackFlipYCached = Some(value)]
             ELSE w1
    ELSE w

(* Force the entire cache to be cleared. *)
wipeCaches(w, bruteForce) ==
    IF w.e.preventCacheWipeBetweenFrames /\ ~bruteForce
    THEN w
    ELSE
    LET w1 == _unbindVertexArrayObject(
                  [w EXCEPT !.e._currentEffect = Null,
                            !.e._viewportCached = <<0, 0, 0, 0>>])
        w2 == unbindAllAttributes(
                  [Call(Call(StateReset(resetTextureCache(
                                            [w1 EXCEPT !.e._currentProgram = Null])),
                             "pixelStorei", 0, 0), "pixelStorei", 1, 0)
                     EXCEPT !.e._colorWriteChanged = TRUE,
                            !.e._unpackFlipYCached = NoString,
                            !.e._mustWipeVertexAttributes = TRUE])
        w3 == _resetVertexBufferBinding(IF bruteForce THEN w2 ELSE w1)
    IN  bindIndexBuffer([w3 EXCEPT !.e._cachedIndexBuffer = Null,
                                   !.e._cachedEffectForVertexBuffers = Null], Null)

(* faceIndex, lodLevel and layer are 0, the target is a plain 2D target    *)
(* without a depth/stencil texture, and no viewport was set through        *)
(* setViewport (_cachedViewport is null).                                  *)
bindFramebuffer(w, rtWrapper) ==
    LET w1 == IF w.e._currentRenderTarget # Null
              THEN _resolveAndGenerateMipMapsFramebuffer(w, w.e._currentRenderTarget, FALSE)
              ELSE w
        w2 == _bindUnboundFramebuffer([w1 EXCEPT !.e._currentRenderTarget = rtWrapper],
                                      RenderTargetWrapper(rtWrapper)._framebuffer)
        w3 == IF RenderTargetWrapper(rtWrapper)._MSAAFramebuffer # Null
              THEN _bindUnboundFramebuffer(w2, RenderTargetWrapper(rtWrapper)._MSAAFramebuffer)
              ELSE w2
    IN  wipeCaches(_viewport(w3, RenderTargetWrapper(rtWrapper).width,
                             RenderTargetWrapper(rtWrapper).width), FALSE)

restoreDefaultFramebuffer(w) ==
    wipeCaches(IF w.e._currentRenderTarget # Null
               THEN unBindFramebuffer(w, w.e._currentRenderTarget, FALSE, FALSE)
               ELSE _bindUnboundFramebuffer(w, Null),
               FALSE)

----------------------------------------------------------------------------
(* Buffer creation and index data.                                         *)

(* An IndicesArray: number[] ("Array"), Uint16Array, Int32Array or         *)
(* Uint32Array, with its elements.                                         *)
NoArray == [kind |-> "none", data |-> << >>]

BYTES_PER_ELEMENT(array) ==
    IF array.kind = "Uint16Array" THEN 2
    ELSE IF array.kind \in {"Int32Array", "Uint32Array"} THEN 4
    ELSE Undefined

(* new Uint16Array(indices), new Uint32Array(indices): each element is     *)
(* converted modulo 2^16, 2^32.                                            *)
NewUint16Array(indices) ==
    [kind |-> "Uint16Array",
     data |-> [i \in DOMAIN indices.data |-> indices.data[i] % 65536]]

(* The model's integers are below 2^31, where the conversion modulo 2^32   *)
(* keeps a value that is not negative and adds 2^32 to a negative one.     *)
ToUint32(x) == IF x >= 0 THEN x ELSE x + 2147483647 + 2147483647 + 2

NewUint32Array(indices) ==
    [kind |-> "Uint32Array",
     data |-> [i \in DOMAIN indices.data |-> ToUint32(indices.data[i])]]

(* _normalizeIndexData that does not look at the values when 32-bit        *)
(* indices are supported.                                                  *)
_normalizeIndexDataWithoutScan(caps, indices) ==
    IF BYTES_PER_ELEMENT(indices) = 2
    THEN indices
    ELSE IF caps.uintIndices
    THEN IF indices.kind = "Uint32Array" THEN indices ELSE NewUint32Array(indices)
    ELSE NewUint16Array(indices)

(* _normalizeIndexData whose scan lets 65536 pass as a 16-bit value. *)
_normalizeIndexDataScansAbove(caps, indices) ==
    IF BYTES_PER_ELEMENT(indices) = 2
    THEN indices
    ELSE IF caps.uintIndices
    THEN IF indices.kind = "Uint32Array"
         THEN indices
         ELSE IF \E index \in DOMAIN indices.data : indices.data[index] > 65536
              THEN NewUint32Array(indices)
              ELSE NewUint16Array(indices)
    ELSE NewUint16Array(indices)

(* _normalizeIndexData that does not read caps.uintIndices. *)
_normalizeIndexDataIgnoresCaps(caps, indices) ==
    IF BYTES_PER_ELEMENT(indices) = 2
    THEN indices
    ELSE IF indices.kind = "Uint32Array"
         THEN indices
         ELSE IF \E index \in DOMAIN indices.data : indices.data[index] >= 65535
              THEN NewUint32Array(indices)
              ELSE NewUint16Array(indices)

_normalizeIndexData(caps, indices) ==
    IF BYTES_PER_ELEMENT(indices) = 2
    THEN indices
    ELSE IF caps.uintIndices
    THEN IF indices.kind = "Uint32Array"
         THEN indices
         ELSE IF \E index \in DOMAIN indices.data : indices.data[index] >= 65535
              THEN NewUint32Array(indices)
              ELSE NewUint16Array(indices)
    ELSE NewUint16Array(indices)

(* gl.bufferData(target, data, usage): the data uploaded is kept with the  *)
(* operation, its byte length with the call.                               *)
glBufferData(w, target, data) ==
    [Call(w, "bufferData", target, Len(data.data) * BYTES_PER_ELEMENT(data))
        EXCEPT !.t.upload = data]

(* gl.createBuffer() returns the next unused handle, or null on a lost     *)
(* context.                                                                *)
FreeBuffers(w) == {b \in 1..w.h.scene.buffers : w.h.buffers[b].state = "free"}
NextBuffer(w) == CHOOSE b \in FreeBuffers(w) : \A c \in FreeBuffers(w) : b <= c

(* data is a Float32Array of floats elements *)
_createVertexBuffer(w, floats) ==
    LET vbo == NextBuffer(w)
        w0 == Call(w, "createBuffer", IF w.g.lost THEN Null ELSE vbo, 0)
        w1 == bindArrayBuffer([w0 EXCEPT !.h.buffers[vbo].state = "live",
                                         !.h.buffers[vbo].kind = ARRAY_BUFFER], vbo)
        w2 == [Call(w1, "bufferData", ARRAY_BUFFER, floats * 4)
                 EXCEPT !.h.buffers[vbo].capacity = floats * 4]
    IN  IF w.g.lost
        THEN [w0 EXCEPT !.t.threw = TRUE]
        ELSE [_resetVertexBufferBinding(w2) EXCEPT !.h.buffers[vbo].references = 1]

createVertexBuffer(w, floats) == _createVertexBuffer(w, floats)

(* The same with gl.DYNAMIC_DRAW as the usage handed to gl.bufferData. *)
createDynamicVertexBuffer(w, floats) == _createVertexBuffer(w, floats)

createIndexBuffer(w, indices) ==
    LET vbo == NextBuffer(w)
        w0 == Call(w, "createBuffer", IF w.g.lost THEN Null ELSE vbo, 0)
        w1 == bindIndexBuffer([w0 EXCEPT !.h.buffers[vbo].state = "live",
                                         !.h.buffers[vbo].kind = ELEMENT_ARRAY_BUFFER], vbo)
        data == _normalizeIndexData(w.e._caps, indices)
        w2 == glBufferData(w1, ELEMENT_ARRAY_BUFFER, data)
    IN  IF w.g.lost
        THEN [w0 EXCEPT !.t.threw = TRUE]
        ELSE [_resetIndexBufferBinding(w2)
                EXCEPT !.h.buffers[vbo].references = 1,
                       !.h.buffers[vbo].is32Bits = (BYTES_PER_ELEMENT(data) = 4)]

(* The underlying resource of a deleted buffer is gone. *)
_deleteBuffer(w, buffer) ==
    [glDeleteBuffer(w, buffer) EXCEPT !.h.buffers[buffer].state = "deleted"]

(* _releaseBuffer that deletes whenever no reference is left. *)
_releaseBufferWheneverNone(w, buffer) ==
    LET w1 == [w EXCEPT !.h.buffers[buffer].references = @ - 1] IN
    IF w1.h.buffers[buffer].references <= 0
    THEN [_deleteBuffer(w1, buffer) EXCEPT !.t.result = TRUE]
    ELSE [w1 EXCEPT !.t.result = FALSE]

(* _releaseBuffer that deletes the buffer while references remain. *)
_releaseBufferAtOnce(w, buffer) ==
    LET w1 == [w EXCEPT !.h.buffers[buffer].references = @ - 1] IN
    [_deleteBuffer(w1, buffer) EXCEPT !.t.result = TRUE]

_releaseBuffer(w, buffer) ==
    LET w1 == [w EXCEPT !.h.buffers[buffer].references = @ - 1] IN
    IF w1.h.buffers[buffer].references = 0
    THEN [_deleteBuffer(w1, buffer) EXCEPT !.t.result = TRUE]
    ELSE [w1 EXCEPT !.t.result = FALSE]

----------------------------------------------------------------------------
(* Draw calls.                                                             *)

(* The depth, stencil and alpha state objects apply themselves; the        *)
(* engine's own part is the colour mask.                                   *)
applyStates(w) ==
    IF w.e._colorWriteChanged
    THEN Call([w EXCEPT !.e._colorWriteChanged = FALSE], "colorMask", 1, 1)
    ELSE w

(* if (instancesCount): an omitted count and a count of 0 are both falsy. *)
Truthy(number) == number \notin {Undefined, 0}

drawElementsType(w, indexStart, instancesCount) ==
    LET w1 == applyStates(w)
        indexFormat == IF w.e._uintIndicesCurrentlySet THEN UNSIGNED_INT ELSE UNSIGNED_SHORT
        mult == IF w.e._uintIndicesCurrentlySet THEN 4 ELSE 2
    IN  IF Truthy(instancesCount)
        THEN Call(w1, "drawElementsInstanced", indexFormat, indexStart * mult)
        ELSE Call(w1, "drawElements", indexFormat, indexStart * mult)

(* drawArraysType that never takes the instanced path. *)
drawArraysTypeNeverInstanced(w, verticesStart, instancesCount) ==
    Call(applyStates(w), "drawArrays", verticesStart, 0)

drawArraysType(w, verticesStart, instancesCount) ==
    LET w1 == applyStates(w) IN
    IF Truthy(instancesCount)
    THEN Call(w1, "drawArraysInstanced", verticesStart, instancesCount)
    ELSE Call(w1, "drawArrays", verticesStart, 0)

----------------------------------------------------------------------------
(* The compiled-effects table.                                             *)

Or(a, b) == IF a # "" THEN a ELSE b                    \* a || b

(* baseName: a string, or an IShaderPath with tokens, sources, elements    *)
(* and names, of which the first that is set is taken.                     *)
ShaderName(name) ==
    [isString |-> TRUE, name |-> name,
     vertexToken |-> "", vertexSource |-> "", vertexElement |-> "", vertex |-> "",
     fragmentToken |-> "", fragmentSource |-> "", fragmentElement |-> "", fragment |-> ""]
ShaderPath(vertexSource, vertex, fragmentSource, fragment) ==
    [isString |-> FALSE, name |-> "",
     vertexToken |-> "", vertexSource |-> vertexSource, vertexElement |-> "",
     vertex |-> vertex,
     fragmentToken |-> "", fragmentSource |-> fragmentSource, fragmentElement |-> "",
     fragment |-> fragment]

VertexOf(baseName) ==
    IF baseName.isString THEN baseName.name
    ELSE Or(baseName.vertexToken, Or(baseName.vertexSource,
            Or(baseName.vertexElement, baseName.vertex)))
FragmentOf(baseName) ==
    IF baseName.isString THEN baseName.name
    ELSE Or(baseName.fragmentToken, Or(baseName.fragmentSource,
            Or(baseName.fragmentElement, baseName.fragment)))

(* _GetGlobalDefines(undefined, isNDCHalfZRange, useReverseDepthBuffer,    *)
(* useExactSrgbConversions): the defines of the flags that are set.        *)
_getGlobalDefines(w) ==
    IF w.e.useReverseDepthBuffer THEN "#define USE_REVERSE_DEPTHBUFFER" ELSE ""

(* defines ?? options.defines ?? "", then the global defines appended. *)
FullDefines(w, options, defines) ==
    LET fullDefines == Coalesce(defines, Coalesce(options.defines, Some("")))[1]
        globalDefines == _getGlobalDefines(w)
    IN  IF globalDefines # "" THEN fullDefines \o globalDefines ELSE fullDefines

EffectName(w, baseName, options, defines) ==
    VertexOf(baseName) \o "+" \o FragmentOf(baseName) \o "@"
        \o FullDefines(w, options, defines)

(* this._compiledEffects as the set of its entries. *)
Compiled(w, name) == \E entry \in w.e._compiledEffects : entry.key = name
CompiledEffect(w, name) ==
    (CHOOSE entry \in w.e._compiledEffects : entry.key = name).effect

(* new Effect(..., name, ...): an Effect with one reference, its key, and  *)
(* a pipeline context whose program is compiled and linked.                *)
FreeEffects(w) == {e \in EffectIds : w.h.effectObjects[e].state = "free"}
NextEffect(w) == CHOOSE e \in FreeEffects(w) : \A f \in FreeEffects(w) : e <= f
NewEffect(w, name) ==
    LET effect == NextEffect(w) IN
    [glCreateProgram(w, effect)
        EXCEPT !.h.effectObjects[effect] =
                   [state |-> "live", _key |-> name, _refCount |-> 1, program |-> effect],
               !.t.result = effect]

(* createEffect that compiles a new Effect for every request. *)
createEffectWithoutLookup(w, baseName, options, defines) ==
    LET name == EffectName(w, baseName, options, defines)
        w1 == NewEffect(w, name)
    IN  [w1 EXCEPT !.e._compiledEffects =
                       {entry \in @ : entry.key # name}
                           \cup {[key |-> name, effect |-> w1.t.result]}]

createEffect(w, baseName, options, defines) ==
    LET name == EffectName(w, baseName, options, defines) IN
    IF Compiled(w, name)
    THEN LET compiledEffect == CompiledEffect(w, name) IN
         [w EXCEPT !.h.effectObjects[compiledEffect]._refCount = @ + 1,
                   !.t.result = compiledEffect]
    ELSE LET w1 == NewEffect(w, name) IN
         [w1 EXCEPT !.e._compiledEffects = @ \cup {[key |-> name, effect |-> w1.t.result]}]

_deletePipelineContext(w, program) ==
    IF program # Null
    THEN glDeleteProgram(IF w.e._currentProgram = program THEN _setProgram(w, Null) ELSE w,
                         program)
    ELSE w

_releaseEffect(w, effect) ==
    LET key == w.h.effectObjects[effect]._key
        w1 == [w EXCEPT !.e._compiledEffects = {entry \in @ : entry.key # key}]
    IN  _deletePipelineContext(w1, w.h.effectObjects[effect].program)

(* Effect.dispose that releases the Effect whatever its count. *)
disposeReleasesAtOnce(w, effect) ==
    LET w1 == [w EXCEPT !.h.effectObjects[effect]._refCount = @ - 1] IN
    [_releaseEffect(w1, effect) EXCEPT !.h.effectObjects[effect].state = "disposed"]

(* Effect.dispose(): one reference less; the Effect whose last reference   *)
(* is gone is released by the engine.                                      *)
dispose(w, effect) ==
    LET w1 == [w EXCEPT !.h.effectObjects[effect]._refCount = @ - 1] IN
    IF w1.h.effectObjects[effect]._refCount > 0
    THEN w1
    ELSE [_releaseEffect(w1, effect) EXCEPT !.h.effectObjects[effect].state = "disposed"]

(* releaseEffects that notifies the observers and keeps the table. *)
releaseEffectsKeepsTable(w) ==
    [w EXCEPT !.h.onReleaseEffectsObservable =
                  [notified |-> @.notified + 1, _compiledEffects |-> w.e._compiledEffects]]

(* The table is replaced by an empty one, then the observers are handed    *)
(* the engine: the table they find is kept with the observable.            *)
releaseEffects(w) ==
    LET w1 == [w EXCEPT !.e._compiledEffects = {}]
    IN  [w1 EXCEPT !.h.onReleaseEffectsObservable =
                       [notified |-> @.notified + 1,
                        _compiledEffects |-> w1.e._compiledEffects]]

----------------------------------------------------------------------------
(* The thin particle system, a consumer of the engine.  Numbers that need  *)
(* not be whole (the capacity, the particles to emit per update and the    *)
(* excess carried over) are kept in halves: 3 stands for 1.5.  A particle  *)
(* is its age in updates; every particle lives MaxLifeTime updates.  The   *)
(* system has no scene, no targetStopDuration and no gradients, and is not *)
(* paused.                                                                 *)

(* for (count = 0; count < this._capacity; count++): six indices for the   *)
(* two triangles of every quad.                                            *)
RECURSIVE QuadIndices(_, _)
QuadIndices(count, capacity) ==
    IF 2 * count >= capacity THEN << >>
    ELSE <<4 * count, 4 * count + 1, 4 * count + 2,
           4 * count, 4 * count + 2, 4 * count + 3>> \o QuadIndices(count + 1, capacity)

(* The index list handed to engine.createIndexBuffer; with instancing the  *)
(* system keeps no index buffer for its triangles.                         *)
_createIndexBuffer(useInstancing, capacity) ==
    IF useInstancing THEN NoString ELSE Some(QuadIndices(0, capacity))

(* The application observes onStartedObservable and onStoppedObservable    *)
(* with one observer each and has set onAnimationEnd.                      *)
NewParticleSystem(caps, options) ==
    [_capacity |-> options.capacity,
     _particles |-> << >>,
     _stockParticles |-> 0,
     _newPartsExcess |-> 0,
     _started |-> FALSE,
     _stopped |-> FALSE,
     _alive |-> FALSE,
     _actualFrame |-> 0,
     _isDisposed |-> FALSE,
     _useInstancing |-> caps.instancedArrays,
     _indexBuffer |-> _createIndexBuffer(caps.instancedArrays, options.capacity),
     onStartedObservable |-> 1,
     onStoppedObservable |-> 1,
     manualEmitCount |-> -1,
     emitRate |-> options.emitRate,          \* emitRate * _scaledUpdateSpeed
     targetStopDuration |-> options.targetStopDuration,  \* in _scaledUpdateSpeed
     preWarmCycles |-> options.preWarmCycles,
     disposeOnStop |-> options.disposeOnStop]

isStarted(system) == system._started

(* observable.notifyObservers(this): the call and the observers it reaches *)
notifyObservers(w, observable, observers) == Call(w, observable, observers, 0)

(* stop that also takes the started flag back. *)
stopClearsStarted(w) ==
    IF w.h.particleSystem._stopped THEN w
    ELSE [notifyObservers(w, "onStoppedObservable", w.h.particleSystem.onStoppedObservable)
            EXCEPT !.h.particleSystem._stopped = TRUE,
                   !.h.particleSystem._started = FALSE]

stop(w) ==
    IF w.h.particleSystem._stopped THEN w
    ELSE [notifyObservers(w, "onStoppedObservable", w.h.particleSystem.onStoppedObservable)
            EXCEPT !.h.particleSystem._stopped = TRUE]

reset(w) ==
    [w EXCEPT !.h.particleSystem._stockParticles = 0,
              !.h.particleSystem._particles = << >>]

(* The particles age by one update; those at the end of their life are     *)
(* recycled into the stock.                                                *)
StillAlive(age) == age < MaxLifeTime

updateFunction(w) ==
    LET particles == w.h.particleSystem._particles
        aged == [k \in 1..Len(particles) |->
                    IF particles[k] + 1 > MaxLifeTime THEN MaxLifeTime
                    ELSE particles[k] + 1]
        kept == SelectSeq(aged, StillAlive)
    IN  [w EXCEPT !.h.particleSystem._particles = kept,
                  !.h.particleSystem._stockParticles = @ + Len(aged) - Len(kept)]

(* _createParticle takes the particle from the stock when there is one. *)
_createParticle(w) ==
    [w EXCEPT !.h.particleSystem._stockParticles = IF @ # 0 THEN @ - 1 ELSE @,
              !.h.particleSystem._particles = Append(@, 0)]

(* _createNewOnes that does not look at the capacity. *)
RECURSIVE _createNewOnesUnbounded(_, _)
_createNewOnesUnbounded(w, newParticles) ==
    IF newParticles <= 0 THEN w
    ELSE _createNewOnesUnbounded(_createParticle(w), newParticles - 1)

(* this._particles.length === this._capacity, with the capacity in halves *)
RECURSIVE _createNewOnes(_, _)
_createNewOnes(w, newParticles) ==
    IF newParticles <= 0 THEN w
    ELSE IF 2 * Len(w.h.particleSystem._particles) = w.h.particleSystem._capacity THEN w
    ELSE _createNewOnes(_createParticle(w), newParticles - 1)

_update(w, newParticles) ==
    _createNewOnes(
        updateFunction([w EXCEPT !.h.particleSystem._alive =
                                     Len(w.h.particleSystem._particles) > 0]),
        newParticles)

(* x >> 0 of a number that is not negative, in halves: its whole part. *)
Whole(halves) == halves \div 2

(* One vertex record written into _vertexData at the given index, with the *)
(* corner of the quad it stands for.                                       *)
_appendParticleVertex(w, index, offsetX, offsetY) ==
    Call(w, "_appendParticleVertex", index, <<offsetX, offsetY>>)

(* _appendParticleVertices that writes one record whatever the capability. *)
_appendParticleVerticesOnce(w, offset) == _appendParticleVertex(w, offset, 0, 0)

_appendParticleVertices(w, offset) ==
    LET w1 == _appendParticleVertex(w, offset, 0, 0) IN
    IF ~w.h.particleSystem._useInstancing
    THEN _appendParticleVertex(
             _appendParticleVertex(
                 _appendParticleVertex(w1, offset + 1, 1, 0), offset + 2, 1, 1),
             offset + 3, 0, 1)
    ELSE w1

(* for (index = 0; index < this._particles.length; index++) *)
RECURSIVE UpdateVBOFrom(_, _, _)
UpdateVBOFrom(w, index, offset) ==
    IF index >= Len(w.h.particleSystem._particles) THEN w
    ELSE UpdateVBOFrom(_appendParticleVertices(w, offset), index + 1,
                       offset + IF w.h.particleSystem._useInstancing THEN 1 ELSE 4)

(* animate that goes on emitting on a stopped system. *)
animateKeepsEmitting(w, preWarmOnly) ==
    LET system == w.h.particleSystem
        manual == system.manualEmitCount > -1
        emitted == IF manual THEN system.manualEmitCount ELSE Whole(system.emitRate)
        excess == IF manual THEN 0
                  ELSE system._newPartsExcess + system.emitRate - 2 * emitted
        newParticles == IF excess > 2 THEN emitted + Whole(excess) ELSE emitted
        w1 == [w EXCEPT !.h.particleSystem.manualEmitCount = IF manual THEN 0 ELSE @,
                        !.h.particleSystem._newPartsExcess =
                            IF excess > 2 THEN excess - 2 * Whole(excess) ELSE excess,
                        !.h.particleSystem._alive = FALSE]
        w2 == _update(w1, newParticles)
        w3 == IF w2.h.particleSystem._stopped /\ ~w2.h.particleSystem._alive
              THEN Call([w2 EXCEPT !.h.particleSystem._started = FALSE],
                        "onAnimationEnd", 0, 0)
              ELSE w2
        w4 == IF ~preWarmOnly
              THEN Call(UpdateVBOFrom(w3, 0, 0),
                        "updateDirectly", 0, Len(w3.h.particleSystem._particles))
              ELSE w3
    IN  IF ~system._started THEN w
        ELSE IF w4.h.particleSystem.manualEmitCount = 0 /\ w4.h.particleSystem.disposeOnStop
        THEN stop(w4)
        ELSE w4

(* One update is one _scaledUpdateSpeed of _actualFrame. *)
animate(w, preWarmOnly) ==
    LET system == w.h.particleSystem
        manual == system.manualEmitCount > -1
        emitted == IF manual THEN system.manualEmitCount ELSE Whole(system.emitRate)
        excess == IF manual THEN 0
                  ELSE system._newPartsExcess + system.emitRate - 2 * emitted
        newParticles == IF excess > 2 THEN emitted + Whole(excess) ELSE emitted
        w1 == [w EXCEPT !.h.particleSystem.manualEmitCount = IF manual THEN 0 ELSE @,
                        !.h.particleSystem._newPartsExcess =
                            IF excess > 2 THEN excess - 2 * Whole(excess) ELSE excess,
                        !.h.particleSystem._alive = FALSE]
        advanced == [w1 EXCEPT !.h.particleSystem._actualFrame = @ + 1]
        w2 == IF system._stopped THEN w1
              ELSE IF system.targetStopDuration # 0
                      /\ system._actualFrame + 1 >= system.targetStopDuration
              THEN stop(advanced)
              ELSE advanced
        w3 == _update(w2, IF system._stopped THEN 0 ELSE newParticles)
        w4 == IF w3.h.particleSystem._stopped /\ ~w3.h.particleSystem._alive
              THEN Call([w3 EXCEPT !.h.particleSystem._started = FALSE],
                        "onAnimationEnd", 0, 0)
              ELSE w3
        w5 == IF ~preWarmOnly
              THEN Call(UpdateVBOFrom(w4, 0, 0),
                        "updateDirectly", 0, Len(w4.h.particleSystem._particles))
              ELSE w4
    IN  IF ~system._started THEN w
        ELSE IF w5.h.particleSystem.manualEmitCount = 0 /\ w5.h.particleSystem.disposeOnStop
        THEN stop(w5)
        ELSE w5

RECURSIVE preWarm(_, _)
preWarm(w, cycles) ==
    IF cycles <= 0 THEN w ELSE preWarm(animate(w, TRUE), cycles - 1)

(* start(delay): with a delay the host is handed a timer whose callback    *)
(* is this.start(0), and nothing else happens.                             *)
start(w, delay) ==
    IF delay # 0
    THEN [w EXCEPT !.h.timers = @ + 1]
    ELSE LET w1 == preWarm([w EXCEPT !.h.particleSystem._started = TRUE,
                                     !.h.particleSystem._stopped = FALSE,
                                     !.h.particleSystem._actualFrame = 0],
                           w.h.particleSystem.preWarmCycles)
         IN  notifyObservers(w1, "onStartedObservable",
                             w1.h.particleSystem.onStartedObservable)

(* The requests of _render to the engine, and the draw the engine issues   *)
(* for them; the scene does not force wireframe.  The binding of the       *)
(* vertex buffers of the system is left out.                               *)
_render(w) ==
    LET count == Len(w.h.particleSystem._particles) IN
    IF w.h.particleSystem._useInstancing
    THEN drawArraysType(Call(w, "engine.drawArraysType", 4, count), 0, count)
    ELSE drawElementsType(Call(w, "engine.drawElementsType", 0, count * 6), 0, Undefined)

(* ThinParticleSystem.dispose: the observables are cleared after          *)
(* onDisposeObservable is notified, the particles are removed.  The        *)
(* release of the buffers of the system is left out.                       *)
disposeParticleSystem(w) ==
    [reset(w) EXCEPT !.h.particleSystem.onStoppedObservable = 0,
                     !.h.particleSystem.onStartedObservable = 0,
                     !.h.particleSystem._isDisposed = TRUE]

----------------------------------------------------------------------------
(* The WebXR plane detector.  A native plane (XRPlane) is a number; the    *)
(* Babylon plane made for it is known by its xrPlane, its id taken from    *)
(* the global PlaneIdProvider is left out.  A frame carries the set of the *)
(* detected planes, or none, and the planes whose lastChangedTime is the   *)
(* current timestamp.  The host hands over a set of its own every frame.   *)

XRPlanes == 1..MaxPlanes

(* The constructor: with a session it runs _init at once, without one it   *)
(* waits for onXRSessionInit.                                              *)
NewPlaneDetector(options, session) ==
    [attached |-> FALSE,
     _enabled |-> session,
     _detectedPlanes |-> << >>,
     _lastFrameDetected |-> {},
     _options |-> options,
     onXRSessionInit |-> ~session]

(* internalInit, whether or not the session has updateWorldTrackingState. *)
_init(w) ==
    [w EXCEPT !.h.planeDetector._enabled = TRUE,
              !.h.planeDetector._detectedPlanes = << >>,
              !.h.planeDetector.onXRSessionInit = FALSE]

(* WebXRAbstractFeature.attach(): the feature is attached and observes the *)
(* frames of the session.                                                  *)
attach(w) ==
    IF w.h.planeDetector.attached
    THEN [w EXCEPT !.t.result = 0]
    ELSE [w EXCEPT !.h.planeDetector.attached = TRUE, !.t.result = 1]

(* while (this._detectedPlanes.length): pop and notify. *)
RECURSIVE PopDetectedPlanes(_)
PopDetectedPlanes(w) ==
    LET planes == w.h.planeDetector._detectedPlanes IN
    IF Len(planes) = 0 THEN w
    ELSE PopDetectedPlanes(
             [Call(w, "onPlaneRemovedObservable", planes[Len(planes)], 0)
                EXCEPT !.h.planeDetector._detectedPlanes = SubSeq(planes, 1, Len(planes) - 1)])

(* super.detach() fails on a feature that is not attached. *)
detach(w) ==
    IF ~w.h.planeDetector.attached
    THEN [w EXCEPT !.t.result = 0]
    ELSE LET w1 == [w EXCEPT !.h.planeDetector.attached = FALSE, !.t.result = 1]
         IN  IF ~w.h.planeDetector._options.doNotRemovePlanesOnSessionEnded
             THEN PopDetectedPlanes(w1)
             ELSE w1

(* The index from 0, or -1. *)
_findIndexInPlaneArray(w, xrPlane) ==
    LET planes == w.h.planeDetector._detectedPlanes
        found == {i \in 1..Len(planes) : planes[i] = xrPlane}
    IN  IF found = {} THEN -1
        ELSE (CHOOSE i \in found : \A j \in found : i <= j) - 1

(* for (planeIdx = 0; ...): splice(planeIdx--, 1) and notify. *)
RECURSIVE RemoveUndetectedFrom(_, _, _)
RemoveUndetectedFrom(w, planeIdx, detectedPlanes) ==
    LET planes == w.h.planeDetector._detectedPlanes IN
    IF planeIdx >= Len(planes) THEN w
    ELSE IF planes[planeIdx + 1] \notin detectedPlanes
    THEN RemoveUndetectedFrom(
             [Call(w, "onPlaneRemovedObservable", planes[planeIdx + 1], 0)
                EXCEPT !.h.planeDetector._detectedPlanes =
                           SubSeq(planes, 1, planeIdx)
                               \o SubSeq(planes, planeIdx + 2, Len(planes))],
             planeIdx, detectedPlanes)
    ELSE RemoveUndetectedFrom(w, planeIdx + 1, detectedPlanes)

(* detectedPlanes.forEach, in the order of the set, here that of the       *)
(* numbers.  _updatePlaneWithXRPlane of a plane that is not in the array   *)
(* assigns to a field of undefined and throws, which ends the handler.     *)
RECURSIVE AddDetectedFrom(_, _, _)
AddDetectedFrom(w, remaining, frame) ==
    IF remaining = {} \/ w.t.threw THEN w
    ELSE LET xrPlane == CHOOSE x \in remaining : \A y \in remaining : x <= y
             rest == remaining \ {xrPlane}
         IN  IF xrPlane \notin w.h.planeDetector._lastFrameDetected
             THEN AddDetectedFrom(
                      [Call(w, "onPlaneAddedObservable", xrPlane, 0)
                         EXCEPT !.h.planeDetector._detectedPlanes = Append(@, xrPlane)],
                      rest, frame)
             ELSE IF xrPlane \in frame.changed
             THEN IF _findIndexInPlaneArray(w, xrPlane) = -1
                  THEN [w EXCEPT !.t.threw = TRUE]
                  ELSE AddDetectedFrom(Call(w, "onPlaneUpdatedObservable", xrPlane, 0),
                                       rest, frame)
             ELSE AddDetectedFrom(w, rest, frame)

_onXRFrame(w, frame) ==
    IF ~w.h.planeDetector.attached \/ ~w.h.planeDetector._enabled THEN w
    ELSE IF frame.detectedPlanes = NoString THEN w
    ELSE LET detectedPlanes == frame.detectedPlanes[1]
             w1 == AddDetectedFrom(RemoveUndetectedFrom(w, 0, detectedPlanes),
                                   detectedPlanes, frame)
         IN  IF w1.t.threw THEN w1
             ELSE [w1 EXCEPT !.h.planeDetector._lastFrameDetected = detectedPlanes]

----------------------------------------------------------------------------
(* Capability probe and context lifecycle.                                 *)

(* _initGLContext that keeps the capability record it finds. *)
_initGLContextKeepsCaps(w) ==
    [w EXCEPT !.e._depthCullingState.depthFunc = Some("LEQUAL"),
              !.e._maxSimultaneousTextures = Cardinality(Channels)]

(* The capability record read from the context: the fields the model uses, *)
(* and the context the record was probed from.                             *)
_initGLContext(w) ==
    LET webGL2 == w.e._webGLVersion > 1
        force == w.e._creationOptions.forceSRGBBufferSupportState
        textureFloat == webGL2 \/ getExtension(w.g, "OES_texture_float")
        textureHalfFloat == webGL2 \/ getExtension(w.g, "OES_texture_half_float")
        supportSRGBBuffers == webGL2 \/ getExtension(w.g, "EXT_sRGB")
    IN  [w EXCEPT !.e._caps =
                      [uintIndices |-> webGL2 \/ w.g.uintIndices,
                       maxVertexAttribs |-> Cardinality(AttribLocations),
                       maxCombinedTexturesImageUnits |-> Cardinality(Channels),
                       textureFloat |-> textureFloat,
                       textureHalfFloat |-> textureHalfFloat,
                       textureFloatLinearFiltering |->
                           textureFloat /\ getExtension(w.g, "OES_texture_float_linear"),
                       textureHalfFloatLinearFiltering |->
                           webGL2 \/ (textureHalfFloat
                                      /\ getExtension(w.g, "OES_texture_half_float_linear")),
                       supportSRGBBuffers |->
                           IF force # NoString
                           THEN supportSRGBBuffers /\ force[1]
                           ELSE supportSRGBBuffers,
                       instancedArrays |->
                           webGL2 \/ getExtension(w.g, "ANGLE_instanced_arrays"),
                       context |-> w.g.generation],
                  !.e._depthCullingState.depthFunc = Some("LEQUAL"),
                  !.e._maxSimultaneousTextures = Cardinality(Channels)]

(* _onContextLost that withdraws the capabilities of the lost context. *)
_onContextLostWithdrawsCaps(w) ==
    IF ~w.e._doNotHandleContextLost
    THEN [w EXCEPT !.g.restorable = TRUE,
                   !.e._contextWasLost = TRUE,
                   !.e._caps.uintIndices = FALSE,
                   !.h.onContextLostObservable =
                       [notified |-> @.notified + 1, _contextWasLost |-> TRUE,
                        _cachedIndexBuffer |-> w.e._cachedIndexBuffer]]
    ELSE w

(* _onContextLost that notifies the observers before it sets the flag. *)
_onContextLostNotifiesFirst(w) ==
    IF ~w.e._doNotHandleContextLost
    THEN [w EXCEPT !.g.restorable = TRUE,
                   !.h.onContextLostObservable =
                       [notified |-> @.notified + 1,
                        _contextWasLost |-> w.e._contextWasLost,
                        _cachedIndexBuffer |-> w.e._cachedIndexBuffer],
                   !.e._contextWasLost = TRUE]
    ELSE w

(* The webglcontextlost listener the constructor installs.  With context   *)
(* loss handled it calls evt.preventDefault(), which is what lets the host *)
(* restore the context later.  The observers are handed the engine: what   *)
(* they read from it at that moment is kept with the observable.           *)
_onContextLost(w) ==
    IF ~w.e._doNotHandleContextLost
    THEN [w EXCEPT !.g.restorable = TRUE,
                   !.e._contextWasLost = TRUE,
                   !.h.onContextLostObservable =
                       [notified |-> @.notified + 1, _contextWasLost |-> TRUE,
                        _cachedIndexBuffer |-> w.e._cachedIndexBuffer]]
    ELSE w

(* AbstractEngine._restoreEngineAfterContextLost(initEngine): re-run the   *)
(* capability probe, wipe the state cache, rebuild the default framebuffer *)
(* binding, then notify the restoration observers.                         *)
_restoreEngineAfterContextLost(w) ==
    LET w1 == wipeCaches(_initGLContext(w), TRUE)
        w2 == [glBindFramebuffer(w1, Null) EXCEPT !.e._currentFramebuffer = Null,
                                                 !.e._currentRenderTarget = Null]
    IN  [w2 EXCEPT !.h.onContextRestoredObservable =
                       [notified |-> @.notified + 1, engine |-> w2.e, context |-> w2.g],
                   !.e._contextWasLost = FALSE,
                   !.e._restoring = FALSE]

(* The webglcontextrestored listener. *)
_onContextRestored(w) == [w EXCEPT !.e._restoring = TRUE]

----------------------------------------------------------------------------
(* The application driving the engine.  A scene names the objects the      *)
(* application owns and hands to the engine in a run: how many buffers it  *)
(* creates, its vertex array objects, vertex buffer dictionaries, effects, *)
(* programs, textures, render targets and framebuffers, and the index      *)
(* lists it uploads.                                                       *)

(* Index values around the 16-bit limit, and the index lists made of them. *)
IndexValues == {0, 3, 65534, 65535, 65536, 131075}
IndexLists == UNION {[1..n -> IndexValues] : n \in 0..MaxLen} \cup {<<0, 1, 2, 0, 2, 3>>}

(* A Uint16Array holds values below 2^16 only. *)
IndicesArrays ==
    {[kind |-> k, data |-> d] : k \in {"Array", "Int32Array", "Uint32Array"}, d \in IndexLists}
    \cup {[kind |-> "Uint16Array", data |-> d] :
            d \in {l \in IndexLists : \A i \in DOMAIN l : l[i] < 65536}}

SmallIndices == { [kind |-> "Array", data |-> <<0, 3>>],
                  [kind |-> "Array", data |-> <<0, 65536>>] }

(* A particle system of capacity 1 that emits one particle per update. *)
FirstParticleSystem ==
    [capacity |-> 2, emitRate |-> 2, preWarmCycles |-> 0, disposeOnStop |-> FALSE,
     targetStopDuration |-> 0]

NoScene ==
    [buffers |-> 0, vaos |-> {}, vertexBuffers |-> {}, effects |-> {}, programs |-> {},
     textures |-> {}, renderTargets |-> {}, framebuffers |-> {}, indices |-> {},
     shaders |-> {}, defines |-> {}, instances |-> {}, declarations |-> {},
     systems |-> {FirstParticleSystem}]

(* Particle systems of capacity 0, 1, 1.5 and 2 that emit 1 or 1.5         *)
(* particles per update, with and without pre-warm cycles.                 *)
ParticleSystems ==
    [capacity : {0, 2, 3, 4}, emitRate : {2, 3}, preWarmCycles : {0, 2},
     disposeOnStop : BOOLEAN, targetStopDuration : {0}]
ParticleScene == [NoScene EXCEPT !.systems = ParticleSystems]

(* Systems of capacity 1 and 2 that emit one particle per update, without  *)
(* a targetStopDuration and with one of 2 updates.                         *)
StoppingSystems ==
    [capacity : {2, 4}, emitRate : {2}, preWarmCycles : {0},
     disposeOnStop : BOOLEAN, targetStopDuration : {0, 2}]
StoppingScene == [NoScene EXCEPT !.systems = StoppingSystems]

BufferScene ==
    [NoScene EXCEPT !.buffers = MaxBuffers, !.vaos = {1}, !.vertexBuffers = {1},
                    !.effects = {1}, !.indices = SmallIndices]
TextureScene == [NoScene EXCEPT !.textures = Textures]
MultiviewScene == [NoScene EXCEPT !.textures = {1} \cup MultiviewTextures]
FramebufferScene ==
    [NoScene EXCEPT !.renderTargets = RenderTargets, !.framebuffers = Framebuffers]
ProgramScene ==
    [NoScene EXCEPT !.programs = Programs, !.effects = Effects, !.textures = {1}]
IndexScene == [NoScene EXCEPT !.buffers = MaxBuffers, !.indices = IndicesArrays]

(* Shaders named by one string or by a path, two of which are different    *)
(* pairs of names; defines given as the argument, in the options, in both  *)
(* or not at all.                                                          *)
Shaders == {ShaderName("color"), ShaderPath("", "a+b", "", "c"),
            ShaderPath("a", "x", "b+c", "y")}
DefinesArguments ==
    {[defines |-> NoString, options |-> [defines |-> NoString]],
     [defines |-> Some("#define A"), options |-> [defines |-> NoString]],
     [defines |-> NoString, options |-> [defines |-> Some("#define A")]],
     [defines |-> Some(""), options |-> [defines |-> Some("#define A")]]}
EffectScene == [NoScene EXCEPT !.shaders = Shaders, !.defines = DefinesArguments]

(* bindInstancesBuffer of buffer 1 with a four-float attribute at offset 0 *)
(* and no computed stride, and the calls that differ from it in one of     *)
(* buffer, size, type, normalized, stride and offset.                      *)
FirstInstancesBinding ==
    [instancesBuffer |-> 1, attributeSize |-> 4, attributeType |-> Undefined,
     normalized |-> FALSE, computeStride |-> FALSE, offset |-> 0]
InstancesBindings ==
    {FirstInstancesBinding,
     [FirstInstancesBinding EXCEPT !.instancesBuffer = 2],
     [FirstInstancesBinding EXCEPT !.attributeSize = 2],
     [FirstInstancesBinding EXCEPT !.attributeType = UNSIGNED_INT],
     [FirstInstancesBinding EXCEPT !.normalized = TRUE],
     [FirstInstancesBinding EXCEPT !.computeStride = TRUE],
     [FirstInstancesBinding EXCEPT !.offset = 16]}
InstanceScene ==
    [NoScene EXCEPT !.buffers = MaxBuffers, !.instances = InstancesBindings]

(* Vertex declarations of one, two and three attributes, with their        *)
(* strides.                                                                *)
VertexDeclarations ==
    {[vertexDeclaration |-> <<3>>, vertexStrideSize |-> 12],
     [vertexDeclaration |-> <<3, 2>>, vertexStrideSize |-> 20],
     [vertexDeclaration |-> <<3, 3, 2>>, vertexStrideSize |-> 32]}
(* A vertex buffer and index buffers of both widths, bound through        *)
(* bindBuffers, bindBuffersDirectly and a vertex array object.             *)
DrawScene ==
    [NoScene EXCEPT !.buffers = MaxDrawBuffers, !.vaos = {1}, !.vertexBuffers = {1},
                    !.effects = {1}, !.indices = SmallIndices,
                    !.declarations = {[vertexDeclaration |-> <<3>>,
                                       vertexStrideSize |-> 12]}]
AttributeScene ==
    [NoScene EXCEPT !.buffers = MaxBuffers, !.vaos = {1}, !.vertexBuffers = VertexBufferSets,
                    !.effects = Effects, !.declarations = VertexDeclarations,
                    !.indices = SmallIndices]

Scenes == {BufferScene, TextureScene, FramebufferScene, ProgramScene, IndexScene,
           EffectScene, InstanceScene, AttributeScene, DrawScene,
           MultiviewScene, ParticleScene, StoppingScene}

----------------------------------------------------------------------------
(* The state after construction.                                           *)

NewBufferPointer ==
    [active |-> FALSE, index |-> Undefined, size |-> Undefined, type |-> Undefined,
     normalized |-> FALSE, stride |-> Undefined, offset |-> Undefined, buffer |-> Undefined]

NewEngine(doNotHandleContextLost) ==
    [_doNotHandleContextLost |-> doNotHandleContextLost,
     _contextWasLost |-> FALSE,
     _restoring |-> FALSE,
     preventCacheWipeBetweenFrames |-> FALSE,
     _unpackFlipYCached |-> NoString,      \* null; Some(value) once cached
     enableUnpackFlipYCached |-> TRUE,
     _webGLVersion |-> 1,
     _creationOptions |-> [forceSRGBBufferSupportState |-> NoString],
     _caps |-> [uintIndices |-> FALSE, maxVertexAttribs |-> 0,
                maxCombinedTexturesImageUnits |-> 0,
                textureFloat |-> FALSE, textureHalfFloat |-> FALSE,
                textureFloatLinearFiltering |-> FALSE,
                textureHalfFloatLinearFiltering |-> FALSE,
                supportSRGBBuffers |-> FALSE, instancedArrays |-> FALSE,
                context |-> Undefined],
     _maxSimultaneousTextures |-> 0,
     _currentProgram |-> Undefined,
     _currentEffect |-> Null,
     _compiledEffects |-> {},
     _internalTexturesCache |-> {},
     useReverseDepthBuffer |-> FALSE,
     _vertexAttribArraysEnabled |-> [i \in AttribLocations |-> FALSE],
     _currentBufferPointers |-> [i \in AttribLocations |-> NewBufferPointer],
     _currentInstanceLocations |-> << >>,
     _currentInstanceBuffers |-> << >>,
     _cachedVertexArrayObject |-> Undefined,
     _vaoRecordInProgress |-> FALSE,
     _mustWipeVertexAttributes |-> FALSE,
     _uintIndicesCurrentlySet |-> FALSE,
     _currentBoundBuffer |-> [t \in BufferTargets |-> Undefined],
     _cachedVertexBuffers |-> Undefined,
     _cachedIndexBuffer |-> Undefined,
     _cachedEffectForVertexBuffers |-> Undefined,
     _currentFramebuffer |-> Null,
     _currentRenderTarget |-> Null,
     _viewportCached |-> <<0, 0, 0, 0>>,
     _boundTexturesCache |-> [c \in Channels |-> Undefined],
     _activeChannel |-> 0,
     _currentTextureChannel |-> -1,
     _boundUniforms |-> [c \in Channels |-> Undefined],
     _colorWriteChanged |-> TRUE,
     _depthCullingState |-> [cull |-> NoString, depthFunc |-> NoString],
     _stencilStateComposer |-> [stencilMaterial |-> NoString]]

NewHeap(scene) ==
    [scene |-> scene,
     buffers |-> [b \in BufferIds |->
                    [state |-> "free", kind |-> Null, references |-> 0,
                     is32Bits |-> FALSE, capacity |-> 0]],
     textures |-> [x \in Textures \cup MultiviewTextures \cup CreatedTextures |->
                     [_associatedChannel |-> -1, released |-> FALSE]],
     internalTextures |-> [x \in CreatedTextures |->
                             [isReady |-> FALSE, _hardwareTexture |-> Null,
                              type |-> "", samplingMode |-> "", format |-> "",
                              _useSRGBBuffer |-> FALSE]],
     uniforms |-> [u \in Uniforms |-> [_currentState |-> Undefined]],
     vaos |-> [v \in Vaos |-> [recorded |-> FALSE, indexBuffer |-> Null]],
     hardwareTextures |-> 0,
     effectObjects |-> [e \in EffectIds |->
                          [state |-> "free", _key |-> "", _refCount |-> 0,
                           program |-> Null]],
     particleSystem |-> NewParticleSystem(NewEngine(FALSE)._caps, FirstParticleSystem),
     timers |-> 0,                           \* pending callbacks of start(delay)
     planeDetector |->
         NewPlaneDetector([doNotRemovePlanesOnSessionEnded |-> FALSE], TRUE),
     onReleaseEffectsObservable |-> [notified |-> 0, _compiledEffects |-> {}],
     onContextLostObservable |->
         [notified |-> 0, _contextWasLost |-> FALSE, _cachedIndexBuffer |-> Undefined],
     onContextRestoredObservable |->
         [notified |-> 0, engine |-> NewEngine(FALSE), context |-> FreshContext(0, FALSE)]]

NoTrace(op) == [op |-> op, input |-> NoArray, upload |-> NoArray,
                calls |-> << >>, threw |-> FALSE, result |-> Null]

(* The constructor given a context: it reads the WebGL version off the     *)
(* context, keeps the creation options and probes the capabilities.        *)
Constructed(options, context, scene) ==
    _initGLContext([e |-> [NewEngine(options.doNotHandleContextLost)
                             EXCEPT !._internalTexturesCache = scene.textures,
                                    !._webGLVersion = context.version,
                                    !._creationOptions =
                                        [forceSRGBBufferSupportState |->
                                             options.forceSRGBBufferSupportState]],
                    h |-> NewHeap(scene),
                    g |-> context,
                    t |-> NoTrace(<<"constructor", 0, 0, 0, 0>>)])

(* An engine constructed with the options over the context, and a         *)
(* particle system of the scene constructed on it.                         *)
InitOf(options, context, scene, system) ==
    LET w0 == Constructed(options, context, scene)
        w == [w0 EXCEPT !.h.particleSystem = NewParticleSystem(w0.e._caps, system)]
    IN  /\ engine = w.e
        /\ heap = w.h
        /\ gl = w.g
        /\ trace = w.t

(* The engines constructed with one of the given creation options on one   *)
(* of the given contexts, for one of the given scenes.                     *)
InitAmong(lostOptions, indexSupport, scenes, versions, extensionSets, forcedStates) ==
    \E doNotHandleContextLost \in lostOptions, uintIndices \in indexSupport,
       scene \in scenes, version \in versions, extensions \in extensionSets,
       forceSRGBBufferSupportState \in forcedStates :
        \E system \in scene.systems :
            InitOf([doNotHandleContextLost |-> doNotHandleContextLost,
                    forceSRGBBufferSupportState |-> forceSRGBBufferSupportState],
                   [FreshContext(0, uintIndices)
                      EXCEPT !.version = version, !.extensions = extensions],
                   scene, system)

ExtensionSets == (SUBSET Extensions) \cup {{"ANGLE_instanced_arrays"}}
ForcedSRGBStates == {NoString, Some(TRUE), Some(FALSE)}

Init ==
    InitAmong(BOOLEAN, BOOLEAN, Scenes, {1, 2}, ExtensionSets, ForcedSRGBStates)

(* The engine of a particle system: it handles context loss, over a        *)
(* context of the given version without extensions.                        *)
InitParticleSystem(version, scene) ==
    \E system \in scene.systems :
        InitOf([doNotHandleContextLost |-> FALSE, forceSRGBBufferSupportState |-> NoString],
               [FreshContext(0, FALSE) EXCEPT !.version = version, !.extensions = {}],
               scene, system)

(* The world an entry point starts in, and the state it leaves. *)
Here(op) == [e |-> engine, h |-> heap, g |-> gl, t |-> NoTrace(op)]

Commit(w) ==
    /\ engine' = w.e
    /\ heap' = w.h
    /\ gl' = w.g
    /\ trace' = w.t

B(flag) == IF flag THEN 1 ELSE 0

LiveBuffers(kind) ==
    {b \in BufferIds : heap.buffers[b].state = "live" /\ heap.buffers[b].kind = kind}
RecordedVaos == {v \in Vaos : heap.vaos[v].recorded}

----------------------------------------------------------------------------
(* The entry points, each run to completion from the current state.        *)

BindArrayBuffer ==
    \E buffer \in LiveBuffers(ARRAY_BUFFER) \cup {Null} :
        Commit(bindArrayBuffer(Here(<<"bindArrayBuffer", buffer, 0, 0, 0>>), buffer))

BindIndexBuffer ==
    \E buffer \in LiveBuffers(ELEMENT_ARRAY_BUFFER) \cup {Null} :
        Commit(bindIndexBuffer(Here(<<"bindIndexBuffer", buffer, 0, 0, 0>>), buffer))

BindIndexBufferWithCache ==
    \E buffer \in LiveBuffers(ELEMENT_ARRAY_BUFFER) \cup {Null} :
        Commit(_bindIndexBufferWithCache(
                   Here(<<"_bindIndexBufferWithCache", buffer, 0, 0, 0>>), buffer))

BindBuffers ==
    \E vertexBuffers \in heap.scene.vertexBuffers, effect \in heap.scene.effects,
       indexBuffer \in LiveBuffers(ELEMENT_ARRAY_BUFFER) \cup {Null} :
        /\ BuffersOf(vertexBuffers) \subseteq LiveBuffers(ARRAY_BUFFER)
        /\ Commit(bindBuffers(Here(<<"bindBuffers", vertexBuffers, indexBuffer, effect, 0>>),
                              vertexBuffers, indexBuffer, effect))

BindBuffersDirectly ==
    \E vertexBuffer \in LiveBuffers(ARRAY_BUFFER),
       indexBuffer \in LiveBuffers(ELEMENT_ARRAY_BUFFER),
       declaration \in heap.scene.declarations, effect \in heap.scene.effects :
        Commit(bindBuffersDirectly(
                   Here(<<"bindBuffersDirectly", vertexBuffer, indexBuffer, declaration,
                          effect>>),
                   vertexBuffer, indexBuffer, declaration.vertexDeclaration,
                   declaration.vertexStrideSize, effect))

(* One attribute, at a location of the program or at none. *)
BindInstancesBuffer ==
    \E binding \in heap.scene.instances, index \in AttribLocations \cup {-1} :
        LET ai == [index |-> index, attributeSize |-> binding.attributeSize,
                   attributeType |-> binding.attributeType,
                   normalized |-> binding.normalized, offset |-> binding.offset]
        IN  /\ binding.instancesBuffer \in LiveBuffers(ARRAY_BUFFER)
            /\ Len(engine._currentInstanceLocations) < MaxInstances
            /\ Commit(bindInstancesBuffer(
                          Here(<<"bindInstancesBuffer", binding.instancesBuffer, ai,
                                 B(binding.computeStride), 0>>),
                          binding.instancesBuffer, <<ai>>, binding.computeStride))

UnbindAllAttributes ==
    Commit(unbindAllAttributes(Here(<<"unbindAllAttributes", 0, 0, 0, 0>>)))

UnbindInstanceAttributes ==
    /\ engine._currentInstanceLocations # << >>
    /\ Commit(unbindInstanceAttributes(Here(<<"unbindInstanceAttributes", 0, 0, 0, 0>>)))

RecordVertexArrayObject ==
    \E vao \in heap.scene.vaos, vertexBuffers \in heap.scene.vertexBuffers,
       effect \in heap.scene.effects,
       indexBuffer \in LiveBuffers(ELEMENT_ARRAY_BUFFER) \cup {Null} :
        /\ ~heap.vaos[vao].recorded
        /\ \A v \in heap.scene.vaos : v < vao => heap.vaos[v].recorded
        /\ BuffersOf(vertexBuffers) \subseteq LiveBuffers(ARRAY_BUFFER)
        /\ Commit(recordVertexArrayObject(
                      Here(<<"recordVertexArrayObject", vao, vertexBuffers, indexBuffer, effect>>),
                      vao, vertexBuffers, indexBuffer, effect))

BindVertexArrayObject ==
    \E vao \in RecordedVaos :
        Commit(bindVertexArrayObject(Here(<<"bindVertexArrayObject", vao, 0, 0, 0>>),
                                     vao, heap.vaos[vao].indexBuffer))

LiveEffects == {e \in EffectIds : heap.effectObjects[e].state = "live"}

SetProgram ==
    \E program \in heap.scene.programs \cup {Null}
                     \cup {heap.effectObjects[e].program : e \in LiveEffects} :
        Commit(_setProgram(Here(<<"_setProgram", program, 0, 0, 0>>), program))

EnableEffect ==
    \E effect \in heap.scene.effects \cup {Null} :
        Commit(enableEffect(Here(<<"enableEffect", effect, 0, 0, 0>>), effect))

(* The textures of a scene are 2D textures. *)
LiveTextures == {x \in heap.scene.textures : ~heap.textures[x].released}

BindTextureDirectly ==
    \E target \in {TEXTURE_2D}, texture \in LiveTextures \cup {Null},
       forTextureDataUpdate \in BOOLEAN, force \in BOOLEAN :
        Commit(_bindTextureDirectly(
                   Here(<<"_bindTextureDirectly", target, texture,
                          B(forTextureDataUpdate), B(force)>>),
                   target, texture, forTextureDataUpdate, force))

BindTexture ==
    \E channel \in Channels, texture \in LiveTextures \cup {Null} :
        Commit(_bindTexture(Here(<<"_bindTexture", channel, texture, 0, 0>>), channel, texture))

CreateTexture ==
    /\ heap.hardwareTextures < MaxHardwareTextures
    /\ Commit(_createTexture(Here(<<"_createTexture", 0, 0, 0, 0>>)))

TextureTypes == {"TEXTURETYPE_UNSIGNED_BYTE", "TEXTURETYPE_FLOAT", "TEXTURETYPE_HALF_FLOAT"}
TextureFormats == {"TEXTUREFORMAT_RED", "TEXTUREFORMAT_RGB", "TEXTUREFORMAT_RGBA"}

(* A colour texture is created with the options the caller gives. *)
CreateInternalTexture ==
    \E type \in TextureTypes,
       samplingMode \in {"undefined", "TEXTURE_NEAREST_SAMPLINGMODE",
                         "TEXTURE_BILINEAR_SAMPLINGMODE"},
       format \in {"undefined", "TEXTUREFORMAT_RGB"},
       useSRGBBuffer \in BOOLEAN :
        /\ \E x \in CreatedTextures : ~heap.internalTextures[x].isReady
        /\ Commit(_createInternalTexture(
                      Here(<<"_createInternalTexture", type, samplingMode, format,
                             useSRGBBuffer>>),
                      [type |-> type, samplingMode |-> samplingMode, format |-> format,
                       useSRGBBuffer |-> useSRGBBuffer]))

(* The sized format of a type and a format is looked up. *)
GetRGBABufferInternalSizedFormat ==
    \E type \in TextureTypes, format \in TextureFormats \cup {"undefined"},
       useSRGBBuffer \in BOOLEAN :
        Commit([Here(<<"_getRGBABufferInternalSizedFormat", type, format,
                       useSRGBBuffer, 0>>)
                  EXCEPT !.t.result = _getRGBABufferInternalSizedFormat(
                                          engine, type, format, useSRGBBuffer)])

(* A texture is disposed of and the engine releases it. *)
ReleaseTexture ==
    \E texture \in LiveTextures :
        Commit(_releaseTexture(Here(<<"_releaseTexture", texture, 0, 0, 0>>), texture))

UnbindAllTextures ==
    Commit(unbindAllTextures(Here(<<"unbindAllTextures", 0, 0, 0, 0>>)))

BindUnboundFramebuffer ==
    \E framebuffer \in heap.scene.framebuffers \cup {Null} :
        Commit(_bindUnboundFramebuffer(
                   Here(<<"_bindUnboundFramebuffer", framebuffer, 0, 0, 0>>), framebuffer))

BindFramebuffer ==
    \E rtWrapper \in heap.scene.renderTargets :
        Commit(bindFramebuffer(Here(<<"bindFramebuffer", rtWrapper, 0, 0, 0>>), rtWrapper))

UnBindFramebuffer ==
    \E texture \in heap.scene.renderTargets, disableGenerateMipMaps \in BOOLEAN, onBeforeUnbind \in BOOLEAN :
        Commit(unBindFramebuffer(
                   Here(<<"unBindFramebuffer", texture, B(disableGenerateMipMaps),
                          B(onBeforeUnbind), 0>>),
                   texture, disableGenerateMipMaps, onBeforeUnbind))

ResolveFramebuffer ==
    \E texture \in heap.scene.renderTargets :
        Commit(resolveFramebuffer(Here(<<"resolveFramebuffer", texture, 0, 0, 0>>), texture))

RestoreDefaultFramebuffer ==
    Commit(restoreDefaultFramebuffer(Here(<<"restoreDefaultFramebuffer", 0, 0, 0, 0>>)))

WipeCaches ==
    \E bruteForce \in BOOLEAN :
        Commit(wipeCaches(Here(<<"wipeCaches", B(bruteForce), 0, 0, 0>>), bruteForce))

(* The application drives the particle system. *)
Start ==
    LET w == start(Here(<<"start", 0, 0, 0, 0>>), 0)
    IN  /\ Len(w.h.particleSystem._particles) <= MaxParticles
        /\ Commit(w)

(* start(delay) with a delay: at most MaxTimers callbacks are pending. *)
StartDelayed ==
    /\ heap.timers < MaxTimers
    /\ Commit(start(Here(<<"start", 1, 0, 0, 0>>), 1))

(* The host runs the callback of a timer: this.start(0). *)
TimerFires ==
    /\ heap.timers > 0
    /\ LET w == start([Here(<<"setTimeout", 0, 0, 0, 0>>) EXCEPT !.h.timers = @ - 1], 0)
       IN  /\ Len(w.h.particleSystem._particles) <= MaxParticles
           /\ Commit(w)

(* An update of a system that has run for at most MaxFrames updates since  *)
(* its start.                                                              *)
Animate ==
    \E w \in {animate(Here(<<"animate", 0, 0, 0, 0>>), FALSE)} :
        /\ Len(w.h.particleSystem._particles) <= MaxParticles
        /\ w.h.particleSystem._actualFrame <= MaxFrames
        /\ Commit(w)

(* render() returns at once when there is no particle. *)
Render ==
    /\ Len(heap.particleSystem._particles) > 0
    /\ Commit(_render(Here(<<"_render", 0, 0, 0, 0>>)))

Dispose ==
    /\ ~heap.particleSystem._isDisposed
    /\ Commit(disposeParticleSystem(Here(<<"dispose", 0, 0, 0, 0>>)))

(* The features manager attaches and detaches the plane detector, the      *)
(* session manager notifies its initialisation and hands over the frames.  *)
Attach ==
    Commit(attach(Here(<<"attach", 0, 0, 0, 0>>)))

Detach ==
    Commit(detach(Here(<<"detach", 0, 0, 0, 0>>)))

SessionInit ==
    /\ heap.planeDetector.onXRSessionInit
    /\ Commit(_init(Here(<<"_init", 0, 0, 0, 0>>)))

XRFrame ==
    \E detectedPlanes \in {NoString} \cup {Some(planes) : planes \in SUBSET XRPlanes} :
      /\ Len(heap.planeDetector._detectedPlanes) <= MaxPlanes
      /\ \E changed \in SUBSET (IF detectedPlanes = NoString THEN {} ELSE detectedPlanes[1]) :
            Commit(_onXRFrame(Here(<<"_onXRFrame", detectedPlanes, changed, 0, 0>>),
                              [detectedPlanes |-> detectedPlanes, changed |-> changed]))

Stop ==
    Commit(stop(Here(<<"stop", 0, 0, 0, 0>>)))

Reset ==
    Commit(reset(Here(<<"reset", 0, 0, 0, 0>>)))

(* manualEmitCount is a public field the application assigns. *)
SetManualEmitCount ==
    \E count \in {-1, 0, 2} :
        /\ count # heap.particleSystem.manualEmitCount
        /\ Commit([Here(<<"manualEmitCount", count, 0, 0, 0>>)
                     EXCEPT !.h.particleSystem.manualEmitCount = count])

UnpackFlipY ==
    \E value \in BOOLEAN :
        Commit(_unpackFlipY(Here(<<"_unpackFlipY", value, 0, 0, 0>>), value))

(* enableUnpackFlipYCached is a public field the application assigns. *)
SetEnableUnpackFlipYCached ==
    \E value \in BOOLEAN :
        /\ value # engine.enableUnpackFlipYCached
        /\ Commit([Here(<<"enableUnpackFlipYCached", value, 0, 0, 0>>)
                     EXCEPT !.e.enableUnpackFlipYCached = value])

SetState ==
    \E culling \in BOOLEAN, stencil \in {NoString, Some("stencil")} :
        Commit(setState(Here(<<"setState", B(culling), Len(stencil), 0, 0>>),
                        culling, stencil))

SetPreventCacheWipeBetweenFrames ==
    \E value \in BOOLEAN :
        /\ value # engine.preventCacheWipeBetweenFrames
        /\ Commit([Here(<<"preventCacheWipeBetweenFrames", B(value), 0, 0, 0>>)
                     EXCEPT !.e.preventCacheWipeBetweenFrames = value])

SetUseReverseDepthBuffer ==
    \E value \in BOOLEAN :
        /\ value # engine.useReverseDepthBuffer
        /\ heap.scene.shaders # {}
        /\ Commit([Here(<<"useReverseDepthBuffer", B(value), 0, 0, 0>>)
                     EXCEPT !.e.useReverseDepthBuffer = value])

(* A consumer asks for an Effect.  The engine constructs at most           *)
(* MaxEffects of them, a consumer holds at most MaxReferences on one.      *)
CreateEffect ==
    \E baseName \in heap.scene.shaders, arguments \in heap.scene.defines :
        LET w == Here(<<"createEffect", baseName, arguments, 0, 0>>)
            name == EffectName(w, baseName, arguments.options, arguments.defines)
        IN  /\ IF Compiled(w, name)
               THEN heap.effectObjects[CompiledEffect(w, name)]._refCount < MaxReferences
               ELSE FreeEffects(w) # {}
            /\ Commit(createEffect(w, baseName, arguments.options, arguments.defines))

(* The engine is told to release all cached effects. *)
ReleaseEffects ==
    /\ heap.onReleaseEffectsObservable.notified < MaxReleases
    /\ Commit(releaseEffects(Here(<<"releaseEffects", 0, 0, 0, 0>>)))

(* A consumer disposes of an Effect it holds. *)
DisposeEffect ==
    \E effect \in LiveEffects :
        Commit(dispose(Here(<<"dispose", effect, 0, 0, 0>>), effect))

CreateVertexBuffer ==
    \E floats \in {6} :
        /\ FreeBuffers(Here(<< >>)) # {}
        /\ Commit(createVertexBuffer(Here(<<"createVertexBuffer", floats, 0, 0, 0>>), floats))

CreateDynamicVertexBuffer ==
    \E floats \in {6} :
        /\ FreeBuffers(Here(<< >>)) # {}
        /\ Commit(createDynamicVertexBuffer(
                      Here(<<"createDynamicVertexBuffer", floats, 0, 0, 0>>), floats))

CreateIndexBuffer ==
    \E indices \in heap.scene.indices :
        /\ FreeBuffers(Here(<< >>)) # {}
        /\ Commit(createIndexBuffer(
                      [Here(<<"createIndexBuffer", 0, 0, 0, 0>>) EXCEPT !.t.input = indices],
                      indices))

(* Another consumer attaches itself to a buffer: buffer.references++. *)
AttachBuffer ==
    \E buffer \in {b \in BufferIds : heap.buffers[b].state = "live"} :
        /\ heap.buffers[buffer].references < MaxReferences
        /\ Commit([Here(<<"references++", buffer, 0, 0, 0>>)
                     EXCEPT !.h.buffers[buffer].references = @ + 1])

(* A consumer releases a buffer, at most twice more than it was held. *)
ReleaseBuffer ==
    \E buffer \in {b \in BufferIds : heap.buffers[b].state # "free"} :
        /\ heap.buffers[buffer].references >= -1
        /\ Commit(_releaseBuffer(Here(<<"_releaseBuffer", buffer, 0, 0, 0>>), buffer))

DrawElementsType ==
    \E indexStart \in {0, 3}, instancesCount \in {Undefined, 0, 2} :
        Commit(drawElementsType(Here(<<"drawElementsType", indexStart, instancesCount, 0, 0>>),
                                indexStart, instancesCount))

DrawArraysType ==
    \E verticesStart \in {0}, instancesCount \in {Undefined, 0, 2} :
        Commit(drawArraysType(Here(<<"drawArraysType", verticesStart, instancesCount, 0, 0>>),
                              verticesStart, instancesCount))

(* The host loses the context and dispatches webglcontextlost.  The events *)
(* are treated as happening strictly between frames, and the restoration   *)
(* leaves Restoring only for Live: the host loses a restored context after *)
(* the engine has finished restoring, not in the middle of it.             *)
ContextLost ==
    /\ ~gl.lost
    /\ ~engine._restoring
    /\ gl.generation < MaxRestores
    /\ Commit(_onContextLost([Here(<<"webglcontextlost", 0, 0, 0, 0>>) EXCEPT !.g.lost = TRUE]))

(* The host restores a context whose loss event was handled, as a new      *)
(* context with its own capabilities, and dispatches webglcontextrestored. *)
ContextRestored ==
    \E uintIndices \in BOOLEAN :
        /\ gl.lost
        /\ gl.restorable
        /\ Commit(_onContextRestored(
                      [Here(<<"webglcontextrestored", 0, 0, 0, 0>>)
                         EXCEPT !.g = [FreshContext(gl.generation + 1, uintIndices)
                                         EXCEPT !.version = gl.version,
                                                !.extensions = gl.extensions]]))

(* The restoration the listener started. *)
RestoreEngine ==
    /\ engine._restoring
    /\ Commit(_restoreEngineAfterContextLost(
                  Here(<<"_restoreEngineAfterContextLost", 0, 0, 0, 0>>)))

Next ==
    \/ Start
    \/ Animate
    \/ Stop
    \/ Reset
    \/ SetManualEmitCount
    \/ UnpackFlipY
    \/ SetEnableUnpackFlipYCached
    \/ ReleaseEffects
    \/ CreateInternalTexture
    \/ GetRGBABufferInternalSizedFormat
    \/ BindArrayBuffer
    \/ BindIndexBuffer
    \/ BindIndexBufferWithCache
    \/ BindBuffers
    \/ RecordVertexArrayObject
    \/ BindVertexArrayObject
    \/ SetProgram
    \/ EnableEffect
    \/ BindTextureDirectly
    \/ BindTexture
    \/ UnbindAllTextures
    \/ BindUnboundFramebuffer
    \/ BindFramebuffer
    \/ UnBindFramebuffer
    \/ ResolveFramebuffer
    \/ RestoreDefaultFramebuffer
    \/ WipeCaches
    \/ SetPreventCacheWipeBetweenFrames
    \/ SetState
    \/ Attach
    \/ Detach
    \/ SessionInit
    \/ XRFrame
    \/ StartDelayed
    \/ TimerFires
    \/ Render
    \/ Dispose
    \/ CreateVertexBuffer
    \/ CreateIndexBuffer
    \/ DrawElementsType
    \/ DrawArraysType
    \/ ContextLost
    \/ ContextRestored
    \/ RestoreEngine
    \/ SetUseReverseDepthBuffer
    \/ CreateEffect
    \/ DisposeEffect
    \/ AttachBuffer
    \/ ReleaseBuffer
    \/ ReleaseTexture
    \/ CreateDynamicVertexBuffer
    \/ CreateTexture
    \/ BindBuffersDirectly
    \/ BindInstancesBuffer
    \/ UnbindInstanceAttributes
    \/ UnbindAllAttributes

Spec == Init /\ [][Next]_vars

----------------------------------------------------------------------------
(* Runs of one part of the engine.                                         *)

(* The state cache: every bind entry point, object creation, the           *)
(* framebuffer operations and the cache wipe, on an engine that handles    *)
(* context loss over a context with 32-bit indices.                        *)
InitBinding ==
    InitAmong({FALSE}, {TRUE}, {BufferScene, TextureScene, FramebufferScene, ProgramScene},
              {1}, {{}}, {NoString})

NextBinding ==
    \/ BindArrayBuffer
    \/ BindIndexBuffer
    \/ BindVertexArrayObject
    \/ RecordVertexArrayObject
    \/ CreateVertexBuffer
    \/ CreateDynamicVertexBuffer
    \/ CreateIndexBuffer
    \/ BindTextureDirectly
    \/ BindTexture
    \/ BindUnboundFramebuffer
    \/ BindFramebuffer
    \/ UnBindFramebuffer
    \/ ResolveFramebuffer
    \/ SetProgram
    \/ WipeCaches

SpecBinding == InitBinding /\ [][NextBinding]_vars

(* The bind and draw entry points around a context loss. *)
InitLost ==
    InitAmong(BOOLEAN, {TRUE}, {BufferScene, TextureScene, FramebufferScene, ProgramScene},
              {1}, {{}}, {NoString})

NextLost ==
    \/ ContextLost
    \/ CreateVertexBuffer
    \/ CreateIndexBuffer
    \/ BindArrayBuffer
    \/ BindBuffers
    \/ BindTextureDirectly
    \/ BindUnboundFramebuffer
    \/ EnableEffect
    \/ DrawElementsType
    \/ DrawArraysType

SpecLost == InitLost /\ [][NextLost]_vars

(* Context loss and restoration, with the binds that fill the cache        *)
(* before the loss and use it after the restoration.                       *)
InitLifecycle ==
    InitAmong(BOOLEAN, BOOLEAN, {BufferScene, TextureScene, FramebufferScene, ProgramScene},
              {1}, {{}}, {NoString})

NextLifecycle ==
    \/ ContextLost
    \/ ContextRestored
    \/ RestoreEngine
    \/ CreateVertexBuffer
    \/ CreateIndexBuffer
    \/ BindArrayBuffer
    \/ BindIndexBufferWithCache
    \/ BindTextureDirectly
    \/ BindUnboundFramebuffer
    \/ EnableEffect

SpecLifecycle == InitLifecycle /\ [][NextLifecycle]_vars

(* Index buffer creation over every index list of the scene. *)
InitIndex ==
    InitAmong({FALSE}, BOOLEAN, {IndexScene},
              {1}, {{}}, {NoString})

NextIndex ==
    \/ CreateIndexBuffer
    \/ BindIndexBufferWithCache

SpecIndex == InitIndex /\ [][NextIndex]_vars

(* The compiled-effects table: effects created, used and disposed of. *)
InitEffects ==
    InitAmong({FALSE}, {TRUE}, {EffectScene},
              {1}, {{}}, {NoString})

NextEffects ==
    \/ CreateEffect
    \/ DisposeEffect
    \/ SetUseReverseDepthBuffer
    \/ SetProgram

SpecEffects == InitEffects /\ [][NextEffects]_vars

(* Resources created, shared between consumers, bound and released. *)
InitRelease ==
    InitAmong({FALSE}, {TRUE}, {BufferScene, TextureScene},
              {1}, {{}}, {NoString})

NextRelease ==
    \/ CreateVertexBuffer
    \/ CreateIndexBuffer
    \/ AttachBuffer
    \/ ReleaseBuffer
    \/ BindArrayBuffer
    \/ BindIndexBufferWithCache
    \/ BindTexture
    \/ BindTextureDirectly
    \/ ReleaseTexture

SpecRelease == InitRelease /\ [][NextRelease]_vars

(* Resources created on a context that may be lost, in which case the      *)
(* driver returns null handles.                                            *)
InitCreation ==
    InitAmong(BOOLEAN, {TRUE}, {BufferScene},
              {1}, {{}}, {NoString})

NextCreation ==
    \/ ContextLost
    \/ CreateVertexBuffer
    \/ CreateDynamicVertexBuffer
    \/ CreateIndexBuffer
    \/ CreateTexture
    \/ RecordVertexArrayObject
    \/ BindVertexArrayObject

SpecCreation == InitCreation /\ [][NextCreation]_vars

(* Binds of every kind, of handles that are cached and of handles that are *)
(* not, with vertex array objects and effects in use.                      *)
InitCached ==
    InitAmong({FALSE}, {TRUE}, {BufferScene, ProgramScene, FramebufferScene},
              {1}, {{}}, {NoString})

NextCached ==
    \/ BindArrayBuffer
    \/ BindIndexBuffer
    \/ BindIndexBufferWithCache
    \/ BindVertexArrayObject
    \/ RecordVertexArrayObject
    \/ CreateVertexBuffer
    \/ CreateIndexBuffer
    \/ BindTextureDirectly
    \/ BindTexture
    \/ EnableEffect
    \/ SetProgram
    \/ BindUnboundFramebuffer

SpecCached == InitCached /\ [][NextCached]_vars

(* Instance attributes set up again and again with arguments that differ   *)
(* in one field, and disabled in between.                                  *)
InitPointers ==
    InitAmong({FALSE}, {TRUE}, {InstanceScene},
              {1}, {{}}, {NoString})

NextPointers ==
    \/ CreateVertexBuffer
    \/ BindArrayBuffer
    \/ BindInstancesBuffer
    \/ UnbindInstanceAttributes
    \/ UnbindAllAttributes

SpecPointers == InitPointers /\ [][NextPointers]_vars

(* Vertex buffers bound for two effects, directly and through a vertex     *)
(* array object, with wipes in between.                                    *)
InitAttributes ==
    InitAmong({FALSE}, {TRUE}, {AttributeScene},
              {1}, {{}}, {NoString})

NextAttributes ==
    \/ CreateVertexBuffer
    \/ BindBuffers
    \/ RecordVertexArrayObject
    \/ BindVertexArrayObject
    \/ UnbindAllAttributes
    \/ WipeCaches

SpecAttributes == InitAttributes /\ [][NextAttributes]_vars

(* Indexed draws between binds of index buffers of both widths. *)
InitDraw ==
    InitAmong({FALSE}, {TRUE}, {DrawScene},
              {1}, {{}}, {NoString})

NextDraw ==
    \/ CreateVertexBuffer
    \/ CreateIndexBuffer
    \/ BindBuffers
    \/ BindBuffersDirectly
    \/ RecordVertexArrayObject
    \/ BindVertexArrayObject
    \/ WipeCaches
    \/ DrawElementsType

SpecDraw == InitDraw /\ [][NextDraw]_vars

(* Binds of a plain and of a multiview texture. *)
InitMultiview ==
    InitAmong({FALSE}, {TRUE}, {MultiviewScene},
              {1}, {{}}, {NoString})

NextMultiview ==
    \/ BindTextureDirectly
    \/ BindTexture
    \/ UnbindAllTextures

SpecMultiview == InitMultiview /\ [][NextMultiview]_vars

(* Draws of both kinds, with and without an instance count, between index  *)
(* buffer binds and wipes.                                                 *)
(* Textures created on contexts of both versions with every set of the    *)
(* float and half-float extensions.                                        *)
InitTextures ==
    InitAmong({FALSE}, {FALSE}, {TextureScene},
              {1, 2}, {extensions \in ExtensionSets : "EXT_sRGB" \notin extensions}, {NoString})

NextTextures ==
    \/ CreateInternalTexture

SpecTextures == InitTextures /\ [][NextTextures]_vars

(* Sized formats looked up and textures created on contexts of both        *)
(* versions, with and without the sRGB extension and with every forced     *)
(* sRGB state.                                                             *)
InitFormats ==
    InitAmong({FALSE}, {FALSE}, {TextureScene},
              {1, 2}, {{}, {"EXT_sRGB"}}, ForcedSRGBStates)

NextFormats ==
    \/ CreateInternalTexture
    \/ GetRGBABufferInternalSizedFormat

SpecFormats == InitFormats /\ [][NextFormats]_vars

(* Contexts of both versions lost and restored, with buffers and textures *)
(* created and bound in between.                                           *)
InitCapabilities ==
    InitAmong({FALSE}, {FALSE}, {TextureScene, BufferScene},
              {1, 2}, {{}}, {NoString})

NextCapabilities ==
    \/ ContextLost
    \/ ContextRestored
    \/ RestoreEngine
    \/ BindTextureDirectly
    \/ CreateInternalTexture
    \/ CreateIndexBuffer

SpecCapabilities == InitCapabilities /\ [][NextCapabilities]_vars

(* The probe at construction and in restorations, on contexts of both      *)
(* versions with every set of the optional extensions and every forced     *)
(* sRGB state.                                                             *)
InitProbe ==
    InitAmong({FALSE}, {FALSE}, {TextureScene},
              {1, 2}, ExtensionSets, ForcedSRGBStates)

NextProbe ==
    \/ ContextLost
    \/ ContextRestored
    \/ RestoreEngine

SpecProbe == InitProbe /\ [][NextProbe]_vars

(* Effects created, disposed of and released all at once. *)
NextReleaseEffects ==
    \/ CreateEffect
    \/ DisposeEffect
    \/ ReleaseEffects

SpecReleaseEffects == InitEffects /\ [][NextReleaseEffects]_vars

(* The unpack flip state set with the cache enabled and disabled, between *)
(* texture binds and cache wipes.                                          *)
InitUnpack ==
    InitAmong({FALSE}, {FALSE}, {TextureScene},
              {1}, {{}}, {NoString})

NextUnpack ==
    \/ UnpackFlipY
    \/ SetEnableUnpackFlipYCached
    \/ WipeCaches
    \/ BindTextureDirectly

SpecUnpack == InitUnpack /\ [][NextUnpack]_vars

(* Particle systems started, animated, stopped and reset, with emission    *)
(* by rate and by manual count.                                            *)
InitParticles ==
    InitAmong({FALSE}, {FALSE}, {ParticleScene},
              {1}, {{}}, {NoString})

NextParticles ==
    \/ Start
    \/ Animate
    \/ Stop
    \/ Reset
    \/ SetManualEmitCount

SpecParticles == InitParticles /\ [][NextParticles]_vars

(* The cache wipe: binds of buffers, vertex array objects, textures,      *)
(* effects and framebuffers, the render states, and wipes with and without *)
(* bruteForce on an engine that may prevent the wipe between frames.       *)
NextWipe ==
    \/ WipeCaches
    \/ SetPreventCacheWipeBetweenFrames
    \/ SetState
    \/ CreateVertexBuffer
    \/ BindBuffers
    \/ RecordVertexArrayObject
    \/ BindVertexArrayObject
    \/ BindTextureDirectly
    \/ EnableEffect
    \/ BindFramebuffer

SpecWipe == InitBinding /\ [][NextWipe]_vars

(* The life of a particle system: started, updated, stopped by the        *)
(* application or by its targetStopDuration, emptied, and started again.   *)
InitStopping == InitParticleSystem(1, StoppingScene)

NextStopping ==
    \/ Start
    \/ Animate
    \/ Stop
    \/ Reset

SpecStopping == InitStopping /\ [][NextStopping]_vars

(* The render loop calls animate() on every frame. *)
SpecStoppingAnimated == SpecStopping /\ WF_vars(Animate)

(* Emission: the system emits by its rate or by manualEmitCount, is        *)
(* stopped, emptied, disposed of and started again.                        *)
NextEmission ==
    \/ Start
    \/ Animate
    \/ Stop
    \/ Reset
    \/ SetManualEmitCount
    \/ Dispose

SpecEmission == InitStopping /\ [][NextEmission]_vars

(* Updates and draws of a particle system on WebGL 1 contexts with and     *)
(* without ANGLE_instanced_arrays and on WebGL 2 contexts.                 *)
InitQuads ==
    \E version \in {1, 2}, extensions \in {{}, {"ANGLE_instanced_arrays"}} :
        \E system \in StoppingScene.systems :
            InitOf([doNotHandleContextLost |-> FALSE,
                    forceSRGBBufferSupportState |-> NoString],
                   [FreshContext(0, FALSE)
                      EXCEPT !.version = version, !.extensions = extensions],
                   StoppingScene, system)

NextQuads ==
    \/ Start
    \/ Animate
    \/ Stop
    \/ Render

SpecQuads == InitQuads /\ [][NextQuads]_vars

(* Delayed starts: the application starts the system with and without a   *)
(* delay, updates, stops and disposes of it while the host runs the timers.*)
NextDelayedStart ==
    \/ Start
    \/ StartDelayed
    \/ TimerFires
    \/ Animate
    \/ Stop
    \/ Dispose

SpecDelayedStart == InitStopping /\ [][NextDelayedStart]_vars

(* The plane detector, constructed with and without a session and with    *)
(* either value of doNotRemovePlanesOnSessionEnded.                        *)
InitPlanes ==
    \E doNotRemovePlanesOnSessionEnded \in BOOLEAN, session \in BOOLEAN :
        LET w == Constructed([doNotHandleContextLost |-> FALSE,
                              forceSRGBBufferSupportState |-> NoString],
                             FreshContext(0, FALSE), NoScene)
        IN  /\ engine = w.e
            /\ heap = [w.h EXCEPT !.planeDetector =
                           NewPlaneDetector([doNotRemovePlanesOnSessionEnded |->
                                                 doNotRemovePlanesOnSessionEnded],
                                            session)]
            /\ gl = w.g
            /\ trace = w.t

NextPlanes ==
    \/ Attach
    \/ Detach
    \/ SessionInit
    \/ XRFrame

SpecPlanes == InitPlanes /\ [][NextPlanes]_vars

NextDrawCalls ==
    \/ CreateIndexBuffer
    \/ BindIndexBufferWithCache
    \/ WipeCaches
    \/ DrawElementsType
    \/ DrawArraysType

SpecDrawCalls == InitDraw /\ [][NextDrawCalls]_vars

----------------------------------------------------------------------------
(* What an operation did to the driver.                                    *)

(* The driver functions that bind an object. *)
BindFunctions == {"bindBuffer", "bindTexture", "bindFramebuffer", "useProgram",
                  "bindVertexArray"}

Issued(w, fn) == \E i \in DOMAIN w.t.calls : w.t.calls[i][1] = fn
IssuedWith(w, fn, a, b) == \E i \in DOMAIN w.t.calls : w.t.calls[i] = <<fn, a, b>>
NoBindCall(w) == \A i \in DOMAIN w.t.calls : w.t.calls[i][1] \notin BindFunctions

(* The world of the operation that has just run. *)
Done == [e |-> engine, h |-> heap, g |-> gl, t |-> trace]

----------------------------------------------------------------------------
(* C1.  Cache coherency: every cached binding equals the binding the       *)
(* context holds.  A cache slot that holds its unset sentinel (undefined,  *)
(* the zero viewport) claims nothing.  The element buffer binding of the   *)
(* context is the one of the vertex array object bound in it.              *)

CacheCoherency ==
    /\ engine._currentBoundBuffer[ARRAY_BUFFER] \in {Undefined, gl.arrayBuffer}
    /\ engine._currentBoundBuffer[ELEMENT_ARRAY_BUFFER]
           \in {Undefined, gl.elementBuffer[gl.vertexArray]}
    /\ \A c \in Channels : engine._boundTexturesCache[c] \in {Undefined, gl.texture[c]}
    /\ engine._currentFramebuffer = gl.drawFramebuffer
    /\ engine._currentProgram \in {Undefined, gl.program}
    /\ engine._cachedVertexArrayObject \in {Undefined, gl.vertexArray}
    /\ engine._viewportCached \in {<<0, 0, 0, 0>>, gl.viewport}

----------------------------------------------------------------------------
(* C2.  Cache idempotence.  The operation that has just run is a bind of a *)
(* handle H; Rebind is the same bind of the same H run once more from the  *)
(* state it left.                                                          *)

BindEntryPoints == {"bindArrayBuffer", "bindIndexBuffer", "_bindTextureDirectly",
                    "_bindTexture", "_bindUnboundFramebuffer", "_setProgram",
                    "bindVertexArrayObject"}

Rebind ==
    LET op == trace.op
        w == Here(op)
    IN  CASE op[1] = "bindArrayBuffer" -> bindArrayBuffer(w, op[2])
          [] op[1] = "bindIndexBuffer" -> bindIndexBuffer(w, op[2])
          [] op[1] = "_bindTextureDirectly" ->
                 _bindTextureDirectly(w, op[2], op[3], op[4] = 1, op[5] = 1)
          [] op[1] = "_bindTexture" -> _bindTexture(w, op[2], op[3])
          [] op[1] = "_bindUnboundFramebuffer" -> _bindUnboundFramebuffer(w, op[2])
          [] op[1] = "_setProgram" -> _setProgram(w, op[2])
          [] op[1] = "bindVertexArrayObject" ->
                 bindVertexArrayObject(w, op[2], heap.vaos[op[2]].indexBuffer)
          [] OTHER -> w

(* The driver function that binds the handle of the bind that has run. *)
BindFunctionOf(op) ==
    CASE op[1] \in {"bindArrayBuffer", "bindIndexBuffer"} -> "bindBuffer"
      [] op[1] \in {"_bindTextureDirectly", "_bindTexture"} -> "bindTexture"
      [] op[1] = "_bindUnboundFramebuffer" -> "bindFramebuffer"
      [] op[1] = "_setProgram" -> "useProgram"
      [] OTHER -> "bindVertexArray"

TimesIssued(calls, fn) == Cardinality({i \in DOMAIN calls : calls[i][1] = fn})

ForcedTextureBind == trace.op[1] = "_bindTextureDirectly" /\ trace.op[5] = 1

----------------------------------------------------------------------------
(* C3.  After wipeCaches, the next bind of any object H, of any binding    *)
(* kind, issues the driver's bind call, whatever was bound before the      *)
(* wipe.                                                                   *)

WipeThenBindIssuesCall ==
    trace.op[1] = "wipeCaches" =>
        LET w == Here(trace.op) IN
        /\ \A b \in LiveBuffers(ARRAY_BUFFER) : Issued(bindArrayBuffer(w, b), "bindBuffer")
        /\ \A b \in LiveBuffers(ELEMENT_ARRAY_BUFFER) :
               Issued(bindIndexBuffer(w, b), "bindBuffer")
        /\ \A c \in Channels, x \in heap.scene.textures :
               Issued(_bindTexture(w, c, x), "bindTexture")
        /\ \A f \in heap.scene.framebuffers :
               Issued(_bindUnboundFramebuffer(w, f), "bindFramebuffer")
        /\ \A program \in heap.scene.programs : Issued(_setProgram(w, program), "useProgram")
        /\ \A v \in RecordedVaos :
               Issued(bindVertexArrayObject(w, v, heap.vaos[v].indexBuffer), "bindVertexArray")

----------------------------------------------------------------------------
(* C4.  After the context-loss notification and before a restoration, a    *)
(* bind or draw entry point returns without invoking any driver function   *)
(* and without throwing.                                                   *)

BindAndDrawEntryPoints == {"bindArrayBuffer", "bindBuffers", "_bindTextureDirectly",
                           "_bindUnboundFramebuffer", "enableEffect", "drawElementsType",
                           "drawArraysType"}

LostContextNoOp ==
    (/\ engine._contextWasLost
     /\ heap.onContextLostObservable.notified > 0
     /\ trace.op[1] \in BindAndDrawEntryPoints)
        => (trace.calls = << >> /\ ~trace.threw)

----------------------------------------------------------------------------
(* C5.  After a context loss followed by a restoration, the first bind of  *)
(* an index buffer issues the driver's bindBuffer again, the index buffer  *)
(* that was bound last before the loss included.                           *)

RestoredIndexBufferRebinds ==
    trace.op[1] = "_restoreEngineAfterContextLost" =>
        \A b \in LiveBuffers(ELEMENT_ARRAY_BUFFER) :
            IssuedWith(_bindIndexBufferWithCache(Here(trace.op), b),
                       "bindBuffer", ELEMENT_ARRAY_BUFFER, b)

(* The restoration has run, and an index buffer was the cached one when    *)
(* the context was lost.                                                   *)
RestoredIndexBufferRebindsWitness ==
    /\ trace.op[1] = "_restoreEngineAfterContextLost"
    /\ heap.onContextLostObservable._cachedIndexBuffer \in LiveBuffers(ELEMENT_ARRAY_BUFFER)

----------------------------------------------------------------------------
(* C6.  A restoration re-runs the capability probe on the restored         *)
(* context, wipes the state cache and binds the default framebuffer, and   *)
(* the restoration observers are notified after all of that: the engine    *)
(* and the context they are handed show it done.  They are notified once   *)
(* per restoration.                                                        *)

RestoredAfterReinitialization ==
    LET seen == heap.onContextRestoredObservable IN
    /\ seen.notified = (IF engine._restoring THEN gl.generation - 1 ELSE gl.generation)
    /\ seen.notified > 0 =>
        /\ ~seen.context.lost
        /\ seen.context.generation = seen.notified
        /\ seen.engine._caps.context = seen.context.generation
        /\ seen.engine._caps.uintIndices = seen.context.uintIndices
        /\ seen.engine._currentEffect = Null
        /\ seen.engine._currentProgram = Null
        /\ seen.engine._cachedVertexArrayObject \in {Null, Undefined}
        /\ seen.engine._cachedVertexBuffers = Null
        /\ seen.engine._cachedIndexBuffer = Null
        /\ seen.engine._cachedEffectForVertexBuffers = Null
        /\ \A t \in BufferTargets : seen.engine._currentBoundBuffer[t] = Null
        /\ \A c \in Channels : seen.engine._boundTexturesCache[c] = Undefined
        /\ seen.engine._viewportCached = <<0, 0, 0, 0>>
        /\ seen.engine._currentFramebuffer = Null
        /\ seen.engine._currentRenderTarget = Null
        /\ seen.context.drawFramebuffer = Null

(* The observers were notified of a restoration that changed the           *)
(* capability record (a 32-bit index buffer exists, the restored context   *)
(* has no 32-bit indices) and wiped a cache that held an index buffer.     *)
RestoredAfterReinitializationWitness ==
    /\ heap.onContextRestoredObservable.notified = 1
    /\ \E b \in BufferIds : heap.buffers[b].is32Bits
    /\ ~heap.onContextRestoredObservable.engine._caps.uintIndices
    /\ heap.onContextLostObservable._cachedIndexBuffer \in LiveBuffers(ELEMENT_ARRAY_BUFFER)

----------------------------------------------------------------------------
(* C7.  The lifecycle moves Live -> Lost -> Restoring -> Live only.  With  *)
(* context loss handled, the loss notification sets the lost flag and the  *)
(* observers of onContextLostObservable find it set; the flag stays set    *)
(* until a restoration has been processed.                                 *)

Phase ==
    IF engine._restoring THEN "Restoring"
    ELSE IF engine._contextWasLost THEN "Lost"
    ELSE "Live"

LifecycleSteps ==
    {<<"Live", "Live">>, <<"Live", "Lost">>, <<"Lost", "Lost">>, <<"Lost", "Restoring">>,
     <<"Restoring", "Restoring">>, <<"Restoring", "Live">>}

ContextLifecycle ==
    [][/\ <<Phase, Phase'>> \in LifecycleSteps
       /\ (Phase = "Live" /\ Phase' = "Lost") => trace'.op[1] = "webglcontextlost"
       /\ (Phase = "Lost" /\ Phase' = "Restoring") => trace'.op[1] = "webglcontextrestored"
       /\ (trace'.op[1] = "webglcontextlost" /\ ~engine._doNotHandleContextLost)
              => /\ engine'._contextWasLost
                 /\ heap'.onContextLostObservable.notified
                        = heap.onContextLostObservable.notified + 1
       /\ heap'.onContextLostObservable.notified # heap.onContextLostObservable.notified
              => heap'.onContextLostObservable._contextWasLost
       /\ (engine._contextWasLost /\ ~engine'._contextWasLost)
              => trace'.op[1] = "_restoreEngineAfterContextLost"
      ]_vars

(* A whole cycle: the engine is live again on the restored context. *)
ContextLifecycleWitness ==
    /\ Phase = "Live"
    /\ gl.generation = 1
    /\ heap.onContextLostObservable.notified = 1
    /\ trace.op[1] = "bindArrayBuffer"

----------------------------------------------------------------------------
(* Index buffer creation: the operation that has just run is a             *)
(* createIndexBuffer of the index list trace.input, it uploaded             *)
(* trace.upload into the buffer Created.                                   *)

IndexBufferCreated == trace.op[1] = "createIndexBuffer" /\ ~trace.threw
Created == trace.calls[1][2]
InputValues == {trace.input.data[i] : i \in DOMAIN trace.input.data}

Uploaded16 ==
    /\ trace.upload.kind = "Uint16Array"
    /\ IssuedWith(Done, "bufferData", ELEMENT_ARRAY_BUFFER, 2 * Len(trace.input.data))
    /\ ~heap.buffers[Created].is32Bits

Uploaded32 ==
    /\ trace.upload.kind = "Uint32Array"
    /\ IssuedWith(Done, "bufferData", ELEMENT_ARRAY_BUFFER, 4 * Len(trace.input.data))
    /\ heap.buffers[Created].is32Bits

(* C8 as stated: with 32-bit indices supported, an index list whose values *)
(* are all below 65536 is uploaded as 16-bit elements, 2 bytes an index,   *)
(* into a buffer not flagged 32-bit, and 32-bit elements are uploaded only *)
(* if some value exceeds 65535.                                            *)
IndexWidth16 ==
    (IndexBufferCreated /\ engine._caps.uintIndices) =>
        /\ (\A v \in InputValues : v < 65536) => Uploaded16
        /\ Uploaded32 => (\E v \in InputValues : v > 65535)

(* C8 amended: with 32-bit indices supported, a Uint16Array, and a number  *)
(* list or Int32Array whose values are all below 65535, is uploaded as     *)
(* 16-bit elements, 2 bytes an index, into a buffer not flagged 32-bit;    *)
(* 32-bit elements are uploaded only if the input is a Uint32Array or some *)
(* value is 65535 or more.                                                 *)
IndexWidth16Below65535 ==
    (IndexBufferCreated /\ engine._caps.uintIndices) =>
        /\ (\/ trace.input.kind = "Uint16Array"
            \/ /\ trace.input.kind \in {"Array", "Int32Array"}
               /\ (\A v \in InputValues : v < 65535))
           => Uploaded16
        /\ Uploaded32 => (\/ trace.input.kind = "Uint32Array"
                          \/ (\E v \in InputValues : v >= 65535))

(* The list [0,1,2,0,2,3] uploaded as 12 bytes. *)
IndexWidth16Below65535Witness ==
    /\ IndexBufferCreated
    /\ engine._caps.uintIndices
    /\ trace.input = [kind |-> "Array", data |-> <<0, 1, 2, 0, 2, 3>>]
    /\ IssuedWith(Done, "bufferData", ELEMENT_ARRAY_BUFFER, 12)

(* C9.  With 32-bit indices supported, an index list with a value of 65536 *)
(* or more is uploaded unchanged as 32-bit elements, and the buffer is     *)
(* flagged is32Bits.                                                       *)
IndexWidth32 ==
    (IndexBufferCreated /\ engine._caps.uintIndices /\ (\E v \in InputValues : v >= 65536)) =>
        /\ Uploaded32
        /\ trace.upload.data = trace.input.data

IndexWidth32Witness ==
    /\ IndexBufferCreated
    /\ engine._caps.uintIndices
    /\ trace.input.kind = "Int32Array"
    /\ (\E v \in InputValues : v = 65536)
    /\ heap.buffers[Created].is32Bits

(* C10.  Without 32-bit indices in the capability record, every index list *)
(* of every array type is uploaded as 16-bit elements, each value reduced  *)
(* modulo 65536, and nothing is thrown.                                    *)
IndexWidthWithoutCapability ==
    (trace.op[1] = "createIndexBuffer" /\ ~engine._caps.uintIndices) =>
        /\ ~trace.threw
        /\ Uploaded16
        /\ \A i \in DOMAIN trace.input.data :
               trace.upload.data[i] = trace.input.data[i] % 65536

(* A Uint32Array holding 131075 uploaded as 16-bit elements, 131075 as 3. *)
IndexWidthWithoutCapabilityWitness ==
    /\ IndexBufferCreated
    /\ ~engine._caps.uintIndices
    /\ trace.input.kind = "Uint32Array"
    /\ \E i \in DOMAIN trace.input.data :
           trace.input.data[i] = 131075 /\ trace.upload.data[i] = 3

----------------------------------------------------------------------------
(* The world a step leaves. *)
There == [e |-> engine', h |-> heap', g |-> gl', t |-> trace']

(* C11.  A createEffect whose name (vertex, fragment and the defines with  *)
(* the global defines appended) is in the table returns the Effect of the  *)
(* table with one more reference, and creates no Effect and no program.    *)
(* After a createEffect the same request finds the Effect returned, and a  *)
(* request that differs in its defines only returns another Effect.        *)
ProgramMemoization ==
    [][trace'.op[1] = "createEffect" =>
         LET baseName == trace'.op[2]
             arguments == trace'.op[3]
             before == Here(trace'.op)
             name == EffectName(before, baseName, arguments.options, arguments.defines)
             returned == trace'.result
         IN  /\ Compiled(before, name) =>
                   /\ returned = CompiledEffect(before, name)
                   /\ heap'.effectObjects =
                          [heap.effectObjects EXCEPT ![returned]._refCount = @ + 1]
                   /\ engine' = engine
                   /\ gl' = gl
                   /\ trace'.calls = << >>
             /\ Compiled(There, name)
             /\ CompiledEffect(There, name) = returned
             /\ createEffect(There, baseName, arguments.options, arguments.defines).t.result
                    = returned
             /\ \A other \in heap.scene.defines :
                    LET otherName == EffectName(before, baseName, other.options, other.defines)
                    IN  /\ FullDefines(before, other.options, other.defines)
                               # FullDefines(before, arguments.options, arguments.defines)
                        /\ (Compiled(There, otherName) \/ FreeEffects(There) # {})
                        => createEffect(There, baseName, other.options, other.defines).t.result
                               # returned
      ]_vars

(* A request answered from the table, for an Effect that now has two       *)
(* references, while the same shaders with other defines are another       *)
(* Effect of the table.                                                    *)
ProgramMemoizationWitness ==
    /\ trace.op[1] = "createEffect"
    /\ trace.calls = << >>
    /\ heap.effectObjects[trace.result]._refCount = 2
    /\ \E other \in heap.scene.defines :
           LET otherName == EffectName(Here(trace.op), trace.op[2], other.options, other.defines)
           IN  /\ Compiled(Here(trace.op), otherName)
               /\ CompiledEffect(Here(trace.op), otherName) # trace.result

----------------------------------------------------------------------------
(* C12.  A buffer that createVertexBuffer or createIndexBuffer returns has *)
(* one reference.  _releaseBuffer takes one reference away; it deletes the *)
(* underlying buffer and returns true exactly when that leaves none, and   *)
(* returns false and deletes nothing otherwise.  So a buffer with one      *)
(* reference is deleted by one release, a buffer with two by the second.   *)
Deletes(w, buffer) == \E i \in DOMAIN w.t.calls : w.t.calls[i] = <<"deleteBuffer", buffer, 0>>

ReferenceCountedBufferRelease ==
    [][/\ (trace'.op[1] \in {"createVertexBuffer", "createIndexBuffer"} /\ ~trace'.threw)
          => heap'.buffers[trace'.calls[1][2]].references = 1
       /\ trace'.op[1] = "_releaseBuffer" =>
            LET buffer == trace'.op[2] IN
            /\ heap'.buffers[buffer].references = heap.buffers[buffer].references - 1
            /\ trace'.result = (heap'.buffers[buffer].references = 0)
            /\ Deletes(There, buffer) = trace'.result
            /\ heap'.buffers[buffer].state =
                   IF trace'.result THEN "deleted" ELSE heap.buffers[buffer].state
            /\ heap.buffers[buffer].references = 1 => trace'.result
            /\ heap.buffers[buffer].references = 2 =>
                   /\ ~trace'.result
                   /\ heap'.buffers[buffer].state = "live"
                   /\ _releaseBuffer(There, buffer).t.result
                   /\ _releaseBuffer(There, buffer).h.buffers[buffer].state = "deleted"
      ]_vars

(* The first release of a buffer two consumers held: the buffer is alive   *)
(* with one reference, and nothing was deleted.                            *)
ReferenceCountedBufferReleaseWitness ==
    /\ trace.op[1] = "_releaseBuffer"
    /\ ~trace.result
    /\ trace.calls = << >>
    /\ heap.buffers[trace.op[2]].state = "live"
    /\ heap.buffers[trace.op[2]].references = 1

----------------------------------------------------------------------------
(* C13.  Disposing of an Effect takes one reference away.  While a         *)
(* reference remains the Effect stays in the table under its key and its   *)
(* program stays in the context; the dispose that takes the last one       *)
(* removes the entry and deletes the program.  Nothing else removes an     *)
(* entry or deletes a program.                                             *)
DeletesProgram(w, program) ==
    \E i \in DOMAIN w.t.calls : w.t.calls[i] = <<"deleteProgram", program, 0>>

----------------------------------------------------------------------------
(* C14.  When _releaseTexture(t) has returned, every channel of the        *)
(* bound-texture cache, up to the number of simultaneous textures, is      *)
(* null: no channel refers to t.                                           *)
ReleasedTextureUnbound ==
    trace.op[1] = "_releaseTexture" =>
        /\ \A channel \in 0..(engine._maxSimultaneousTextures - 1) :
               engine._boundTexturesCache[channel] = Null
        /\ \A channel \in DOMAIN engine._boundTexturesCache :
               engine._boundTexturesCache[channel] # trace.op[2]

(* The texture released was bound on channel 1, and the pass unbound it    *)
(* there.                                                                  *)
ReleasedTextureUnboundWitness ==
    /\ trace.op[1] = "_releaseTexture"
    /\ heap.textures[trace.op[2]].released
    /\ heap.textures[trace.op[2]]._associatedChannel = 1
    /\ \E i \in DOMAIN trace.calls :
           /\ trace.calls[i] = <<"activeTexture", 1, 0>>
           /\ i < Len(trace.calls)
           /\ trace.calls[i + 1] = <<"bindTexture", TEXTURE_2D, Null>>

----------------------------------------------------------------------------
(* C15.  createVertexBuffer, createDynamicVertexBuffer and                 *)
(* createIndexBuffer bind the new buffer to its target, upload the data    *)
(* and unbind, in that order; when they have returned the cached binding   *)
(* of the target is null and not the new buffer.                           *)
CreationTarget ==
    IF trace.op[1] = "createIndexBuffer" THEN ELEMENT_ARRAY_BUFFER ELSE ARRAY_BUFFER

BufferCreated ==
    /\ trace.op[1] \in {"createVertexBuffer", "createDynamicVertexBuffer", "createIndexBuffer"}
    /\ ~trace.threw

CreationUnbinds ==
    BufferCreated =>
        /\ engine._currentBoundBuffer[CreationTarget] = Null
        /\ engine._currentBoundBuffer[CreationTarget] # trace.calls[1][2]
        /\ \E i, j, k \in DOMAIN trace.calls :
               /\ i < j /\ j < k
               /\ trace.calls[i] = <<"bindBuffer", CreationTarget, trace.calls[1][2]>>
               /\ trace.calls[j][1] = "bufferData"
               /\ trace.calls[j][2] = CreationTarget
               /\ trace.calls[k] = <<"bindBuffer", CreationTarget, Null>>
               /\ k = Len(trace.calls)

(* The second buffer, a dynamic vertex buffer, created while a vertex      *)
(* array object was bound.                                                 *)
CreationUnbindsWitness ==
    /\ BufferCreated
    /\ trace.op[1] = "createDynamicVertexBuffer"
    /\ trace.calls[2] = <<"bindVertexArray", Null, 0>>
    /\ trace.calls[1][2] = 2

----------------------------------------------------------------------------
(* C16.  createVertexBuffer, createDynamicVertexBuffer, createIndexBuffer, *)
(* _createTexture and recordVertexArrayObject ask the driver for a handle  *)
(* once.  They throw exactly when the driver returned null, and then they  *)
(* have made no other driver call: no retry.                               *)
CreationEntryPoints ==
    {"createVertexBuffer", "createDynamicVertexBuffer", "createIndexBuffer",
     "_createTexture", "recordVertexArrayObject"}
CreationFunctions == {"createBuffer", "createTexture", "createVertexArray"}

CreationFailureThrows ==
    trace.op[1] \in CreationEntryPoints =>
        /\ Len(trace.calls) >= 1
        /\ Cardinality({i \in DOMAIN trace.calls : trace.calls[i][1] \in CreationFunctions}) = 1
        /\ trace.calls[1][1] \in CreationFunctions
        /\ trace.threw <=> (trace.calls[1][2] = Null)
        /\ trace.threw => Len(trace.calls) = 1

(* The context was lost, the driver returned no vertex array object and    *)
(* recordVertexArrayObject threw.                                          *)
CreationFailureThrowsWitness ==
    /\ trace.op[1] = "recordVertexArrayObject"
    /\ trace.calls = << <<"createVertexArray", Null, 0>> >>
    /\ trace.threw
    /\ gl.lost

----------------------------------------------------------------------------
(* Binds of a handle that is the cached one.  EqualToCached(op) says, in   *)
(* the state the bind op starts in, that its handle is the cached value of *)
(* its target or channel; a texture bound for a data update goes to the    *)
(* channel the texture is associated with.                                 *)
ChannelOf(op) ==
    IF op[4] = 1 /\ op[3] # Null /\ heap.textures[op[3]]._associatedChannel > -1
    THEN heap.textures[op[3]]._associatedChannel
    ELSE engine._activeChannel

EqualToCached(op) ==
    CASE op[1] = "bindArrayBuffer" -> engine._currentBoundBuffer[ARRAY_BUFFER] = op[2]
      [] op[1] = "bindIndexBuffer" -> engine._currentBoundBuffer[ELEMENT_ARRAY_BUFFER] = op[2]
      [] op[1] = "_bindIndexBufferWithCache" -> engine._cachedIndexBuffer = op[2]
      [] op[1] = "_bindTextureDirectly" ->
             op[5] = 0 /\ engine._boundTexturesCache[ChannelOf(op)] = op[3]
      [] op[1] = "_bindTexture" -> engine._boundTexturesCache[op[2]] = op[3]
      [] op[1] = "_bindUnboundFramebuffer" -> engine._currentFramebuffer = op[2]
      [] op[1] = "_setProgram" -> engine._currentProgram = op[2]
      [] op[1] = "bindVertexArrayObject" -> engine._cachedVertexArrayObject = op[2]
      [] OTHER -> FALSE

(* The cached value of the target or channel of op, in the engine e. *)
CachedBinding(e, op) ==
    CASE op[1] = "bindArrayBuffer" -> e._currentBoundBuffer[ARRAY_BUFFER]
      [] op[1] = "bindIndexBuffer" -> e._currentBoundBuffer[ELEMENT_ARRAY_BUFFER]
      [] op[1] = "_bindIndexBufferWithCache" -> e._cachedIndexBuffer
      [] op[1] = "_bindTextureDirectly" -> e._boundTexturesCache[ChannelOf(op)]
      [] op[1] = "_bindTexture" -> e._boundTexturesCache[op[2]]
      [] op[1] = "_bindUnboundFramebuffer" -> e._currentFramebuffer
      [] op[1] = "_setProgram" -> e._currentProgram
      [] OTHER -> e._cachedVertexArrayObject

OwnBindFunction(op) ==
    IF op[1] = "_bindIndexBufferWithCache" THEN "bindBuffer" ELSE BindFunctionOf(op)

(* C17 as stated: a bind of the cached handle issues no driver call and    *)
(* leaves every field of the state cache as it was.                        *)
EqualBindNoSideEffect ==
    [][EqualToCached(trace'.op) => (trace'.calls = << >> /\ engine' = engine)]_vars

(* C17 amended: a bind of the cached handle issues no bind call for its    *)
(* own target or channel and leaves that cached binding as it was.         *)
(* _bindUnboundFramebuffer, _setProgram, bindVertexArrayObject and         *)
(* _bindIndexBufferWithCache then do nothing at all.  bindArrayBuffer and  *)
(* bindIndexBuffer first unbind the cached vertex array object if there is *)
(* one: bindVertexArray(null) and a null _cachedVertexArrayObject are      *)
(* their only effect.  _bindTextureDirectly without force and _bindTexture *)
(* may issue activeTexture and uniform1i and move _activeChannel and       *)
(* _currentTextureChannel; no other field of the state cache changes.      *)
EqualBindSkipsBindCall ==
    [][EqualToCached(trace'.op) =>
         LET op == trace'.op IN
         /\ \A i \in DOMAIN trace'.calls : trace'.calls[i][1] # OwnBindFunction(op)
         /\ CachedBinding(engine', op) = CachedBinding(engine, op)
         /\ CASE op[1] \in {"bindArrayBuffer", "bindIndexBuffer"} ->
                    /\ heap' = heap
                    /\ IF engine._cachedVertexArrayObject \in {Null, Undefined}
                       THEN trace'.calls = << >> /\ engine' = engine
                       ELSE /\ trace'.calls = << <<"bindVertexArray", Null, 0>> >>
                            /\ engine' = [engine EXCEPT !._cachedVertexArrayObject = Null]
              [] op[1] \in {"_bindTextureDirectly", "_bindTexture"} ->
                    /\ \A i \in DOMAIN trace'.calls :
                           trace'.calls[i][1] \in {"activeTexture", "uniform1i"}
                    /\ engine' = [engine EXCEPT
                                    !._activeChannel = engine'._activeChannel,
                                    !._currentTextureChannel = engine'._currentTextureChannel]
              [] OTHER -> trace'.calls = << >> /\ engine' = engine /\ heap' = heap
      ]_vars

(* bindIndexBuffer of the element buffer that is cached, while a vertex    *)
(* array object was cached: the object was unbound and no buffer bound.    *)
EqualBindSkipsBindCallWitness ==
    /\ trace.op[1] = "bindIndexBuffer"
    /\ trace.op[2] # Null
    /\ trace.calls = << <<"bindVertexArray", Null, 0>> >>
    /\ engine._currentBoundBuffer[ELEMENT_ARRAY_BUFFER] = trace.op[2]

----------------------------------------------------------------------------
(* The attribute pointers.  bindInstancesBuffer with one attribute at a    *)
(* location of the program calls _vertexAttribPointer once, with the       *)
(* arguments PointerArguments(op), on the pointer the state before holds.  *)
PointerArguments(op) ==
    [active |-> TRUE, index |-> op[3].index, size |-> op[3].attributeSize,
     type |-> IF op[3].attributeType = Undefined THEN FLOAT ELSE op[3].attributeType,
     normalized |-> op[3].normalized,
     stride |-> IF op[4] = 1 THEN op[3].attributeSize * 4 ELSE 0,
     offset |-> op[3].offset, buffer |-> op[2]]

PointerSetups(calls, indx) ==
    Cardinality({i \in DOMAIN calls :
                    /\ calls[i][1] \in {"vertexAttribPointer", "vertexAttribIPointer"}
                    /\ calls[i][2] = indx})

SetsPointer(op) == op[1] = "bindInstancesBuffer" /\ op[3].index >= 0

(* C18: _vertexAttribPointer issues the pointer-setup call when the        *)
(* attribute was inactive or one of buffer, size, type, normalized, stride *)
(* and offset differs from the cached tuple, issues none when the          *)
(* attribute is active and all six are equal, and leaves the cached tuple  *)
(* equal to its arguments.                                                 *)
AttributeDiffing ==
    [][SetsPointer(trace'.op) =>
         LET arguments == PointerArguments(trace'.op)
             pointer == engine._currentBufferPointers[arguments.index]
             differs == \/ ~pointer.active
                        \/ pointer.buffer # arguments.buffer
                        \/ pointer.size # arguments.size
                        \/ pointer.type # arguments.type
                        \/ pointer.normalized # arguments.normalized
                        \/ pointer.stride # arguments.stride
                        \/ pointer.offset # arguments.offset
         IN  /\ PointerSetups(trace'.calls, arguments.index) = IF differs THEN 1 ELSE 0
             /\ engine'._currentBufferPointers[arguments.index] = arguments
      ]_vars

(* The attribute set up a second time with the same six arguments: no      *)
(* pointer-setup call was issued.                                          *)
AttributeDiffingWitness ==
    /\ SetsPointer(trace.op)
    /\ PointerSetups(trace.calls, trace.op[3].index) = 0
    /\ engine._currentBufferPointers[trace.op[3].index] = PointerArguments(trace.op)

----------------------------------------------------------------------------
(* The attributes of an effect that bindBuffers does not skip: those with  *)
(* a location in the program and a vertex buffer in the dictionary.        *)
NotSkipped(vertexBuffers, effect) ==
    {EffectAttributes(effect)[i].location :
        i \in {j \in DOMAIN EffectAttributes(effect) :
                  /\ EffectAttributes(effect)[j].location >= 0
                  /\ VertexBuffers(vertexBuffers, EffectAttributes(effect)[j].name)
                         # NoVertexBuffer}}

CallsOf(calls, fns) == {calls[i][2] : i \in {j \in DOMAIN calls : calls[j][1] \in fns}}

(* bindBuffers with a dictionary or an effect that is not the cached one. *)
CacheMissingBindBuffers(op) ==
    /\ op[1] = "bindBuffers"
    /\ \/ engine._cachedVertexBuffers # op[2]
       \/ engine._cachedEffectForVertexBuffers # op[4]

(* C19: a cache-missing bindBuffers throws nothing, enables and sets up    *)
(* the attributes it does not skip and no other, and afterwards the        *)
(* attribute arrays enabled in the context are exactly those.              *)
SkippedAttributesStayDisabled ==
    [][CacheMissingBindBuffers(trace'.op) =>
         LET bound == NotSkipped(trace'.op[2], trace'.op[4]) IN
         /\ ~trace'.threw
         /\ CallsOf(trace'.calls, {"enableVertexAttribArray"}) = bound
         /\ CallsOf(trace'.calls, {"vertexAttribPointer", "vertexAttribIPointer"})
                \subseteq bound
         /\ gl'.attribEnabled[gl'.vertexArray] = bound
      ]_vars

(* The same, for the attribute arrays the engine holds to be enabled. *)
SkippedAttributesHeldDisabled ==
    [][CacheMissingBindBuffers(trace'.op) =>
         LET bound == NotSkipped(trace'.op[2], trace'.op[4]) IN
         /\ ~trace'.threw
         /\ CallsOf(trace'.calls, {"enableVertexAttribArray"}) = bound
         /\ CallsOf(trace'.calls, {"vertexAttribPointer", "vertexAttribIPointer"})
                \subseteq bound
         /\ {i \in AttribLocations : engine'._vertexAttribArraysEnabled[i]} = bound
      ]_vars

----------------------------------------------------------------------------
(* The index buffer the context draws from: the element array buffer of    *)
(* the vertex array object that is bound.                                  *)
IndexBufferForDrawing == gl.elementBuffer[gl.vertexArray]

(* C20: an indexed draw passes the 32-bit element type iff the index       *)
(* buffer bound for drawing is 32-bit, and the byte offset indexStart * 4  *)
(* for 32-bit and indexStart * 2 for 16-bit.                               *)
DrawUsesWidthOfBoundIndexBuffer ==
    (trace.op[1] = "drawElementsType" /\ IndexBufferForDrawing # Null) =>
        LET is32Bits == heap.buffers[IndexBufferForDrawing].is32Bits
            draw == trace.calls[Len(trace.calls)]
        IN  /\ draw[1] \in {"drawElements", "drawElementsInstanced"}
            /\ draw[2] = IF is32Bits THEN UNSIGNED_INT ELSE UNSIGNED_SHORT
            /\ draw[3] = trace.op[2] * (IF is32Bits THEN 4 ELSE 2)

----------------------------------------------------------------------------
(* The draw calls an entry point issued. *)
DrawFunctions == {"drawElements", "drawElementsInstanced", "drawArrays", "drawArraysInstanced"}
InstancedDrawFunctions == {"drawElementsInstanced", "drawArraysInstanced"}
DrawsIssued(calls) == {i \in DOMAIN calls : calls[i][1] \in DrawFunctions}
IsDraw(op) == op[1] \in {"drawElementsType", "drawArraysType"}
DrawKind(fn) == IF fn \in {"drawElements", "drawElementsInstanced"}
                THEN "drawElementsType" ELSE "drawArraysType"

(* C21 as stated: every draw issues exactly one draw call, the instanced   *)
(* variant when an instance count is supplied and the non-instanced one    *)
(* otherwise.                                                              *)
OneDrawInstancedWhenSupplied ==
    IsDraw(trace.op) =>
        /\ Cardinality(DrawsIssued(trace.calls)) = 1
        /\ \A i \in DrawsIssued(trace.calls) :
              /\ DrawKind(trace.calls[i][1]) = trace.op[1]
              /\ (trace.calls[i][1] \in InstancedDrawFunctions) <=> (trace.op[3] # Undefined)

(* C21 amended: every draw issues exactly one draw call, the instanced     *)
(* variant when a non-zero instance count is supplied and the              *)
(* non-instanced one when the count is omitted or 0.                       *)
OneDrawInstancedWhenNonZero ==
    IsDraw(trace.op) =>
        /\ Cardinality(DrawsIssued(trace.calls)) = 1
        /\ \A i \in DrawsIssued(trace.calls) :
              /\ DrawKind(trace.calls[i][1]) = trace.op[1]
              /\ (trace.calls[i][1] \in InstancedDrawFunctions)
                     <=> (trace.op[3] \notin {Undefined, 0})

(* drawArraysType with two instances issued drawArraysInstanced, after a   *)
(* draw that had to apply the color mask first.                            *)
OneDrawInstancedWhenNonZeroWitness ==
    /\ trace.op[1] = "drawArraysType"
    /\ trace.op[3] = 2
    /\ trace.calls = << <<"drawArraysInstanced", trace.op[2], 2>> >>

----------------------------------------------------------------------------
(* _bindTextureDirectly called with a multiview texture. *)
MultiviewBind(op) == op[1] = "_bindTextureDirectly" /\ op[3] \in MultiviewTextures

(* C22 as stated: the bind throws, issues no driver call and leaves the    *)
(* bound-texture cache and the current-channel cache as they were.         *)
MultiviewBindRejectedUntouched ==
    [][MultiviewBind(trace'.op) =>
         /\ trace'.threw
         /\ trace'.calls = << >>
         /\ engine'._boundTexturesCache = engine._boundTexturesCache
         /\ engine'._currentTextureChannel = engine._currentTextureChannel
      ]_vars

(* C22 amended: the bind throws, issues no bindTexture and leaves the      *)
(* bound-texture cache and the texture's channel as they were; before it   *)
(* throws it makes the channel of the bind the active one (for a data      *)
(* update, the channel the texture is associated with) and activates it,   *)
(* which issues activeTexture and stores the channel in                    *)
(* _currentTextureChannel when that was another one.                       *)
MultiviewBindRejected ==
    [][MultiviewBind(trace'.op) =>
         LET channel == ChannelOf(trace'.op) IN
         /\ trace'.threw
         /\ engine'._boundTexturesCache = engine._boundTexturesCache
         /\ heap' = heap
         /\ gl'.texture = gl.texture
         /\ engine' = [engine EXCEPT !._activeChannel = channel,
                                     !._currentTextureChannel = channel]
         /\ trace'.calls = IF engine._currentTextureChannel = channel
                           THEN << >>
                           ELSE << <<"activeTexture", channel, 0>> >>
      ]_vars

(* The multiview texture bound while another channel was the current one:  *)
(* activeTexture was issued and the bind threw.                            *)
MultiviewBindRejectedWitness ==
    /\ trace.op[1] = "_bindTextureDirectly"
    /\ trace.op[3] \in MultiviewTextures
    /\ trace.threw
    /\ trace.calls = << <<"activeTexture", 1, 0>> >>
    /\ engine._boundTexturesCache[1] \in Textures

----------------------------------------------------------------------------
(* C23: _createInternalTexture asked for a FLOAT texture on a context      *)
(* without float linear filtering, or a HALF_FLOAT texture on a context    *)
(* without half-float linear filtering, returns a texture whose sampling   *)
(* mode is nearest; asked for a FLOAT texture on a context without float   *)
(* textures it returns a texture of type UNSIGNED_BYTE; it does not throw. *)

CreatedInternalTexture == trace.op[1] = "_createInternalTexture"

NoLinearFiltering ==
    \/ trace.op[2] = "TEXTURETYPE_FLOAT" /\ ~engine._caps.textureFloatLinearFiltering
    \/ trace.op[2] = "TEXTURETYPE_HALF_FLOAT" /\ ~engine._caps.textureHalfFloatLinearFiltering

NoFloatTextures == trace.op[2] = "TEXTURETYPE_FLOAT" /\ ~engine._caps.textureFloat

UnsupportedFloatDegrades ==
    CreatedInternalTexture /\ (NoLinearFiltering \/ NoFloatTextures) =>
        /\ ~trace.threw
        /\ trace.result \in CreatedTextures
        /\ heap.internalTextures[trace.result].isReady
        /\ trace.result \in engine._internalTexturesCache
        /\ NoLinearFiltering =>
               /\ heap.internalTextures[trace.result].samplingMode
                      = "TEXTURE_NEAREST_SAMPLINGMODE"
               /\ \E k \in 1..Len(trace.calls) :
                      trace.calls[k] = <<"texParameteri", TEXTURE_2D,
                                         "TEXTURE_NEAREST_SAMPLINGMODE">>
        /\ NoFloatTextures =>
               /\ heap.internalTextures[trace.result].type = "TEXTURETYPE_UNSIGNED_BYTE"
               /\ \E k \in 1..Len(trace.calls) :
                      /\ trace.calls[k][1] = "texImage2D"
                      /\ trace.calls[k][3] = "UNSIGNED_BYTE"

(* A float texture asked for with bilinear sampling on a context that has  *)
(* neither float textures nor float linear filtering.                     *)
UnsupportedFloatDegradesWitness ==
    /\ CreatedInternalTexture
    /\ NoLinearFiltering
    /\ NoFloatTextures
    /\ trace.op[3] = "TEXTURE_BILINEAR_SAMPLINGMODE"
    /\ heap.internalTextures[trace.result].type = "TEXTURETYPE_UNSIGNED_BYTE"

----------------------------------------------------------------------------
(* C24: for the type UNSIGNED_BYTE and the format RGBA,                    *)
(* _getRGBABufferInternalSizedFormat returns SRGB8_ALPHA8 exactly when the *)
(* sRGB flag is set and the context is WebGL 2, and otherwise RGBA8 on     *)
(* WebGL 2 and RGBA on WebGL 1; _createInternalTexture passes the flag, and *)
(* records it on the texture, only when the capability record supports     *)
(* sRGB buffers and the version is above 1.                                *)

SizedFormatOf8BitRGBA ==
    trace.op[1] = "_getRGBABufferInternalSizedFormat"
    /\ trace.op[2] = "TEXTURETYPE_UNSIGNED_BYTE" /\ trace.op[3] = "TEXTUREFORMAT_RGBA" =>
        /\ (trace.result = "SRGB8_ALPHA8") <=> (trace.op[4] /\ engine._webGLVersion = 2)
        /\ trace.result # "SRGB8_ALPHA8" =>
               trace.result = (IF engine._webGLVersion = 2 THEN "RGBA8" ELSE "RGBA")

SRGBSizedFormats == {"SRGB", "SRGB8", "SRGB8_ALPHA8"}

SRGBFlagPassedWhenSupported ==
    trace.op[1] = "_createInternalTexture" =>
        LET passed == trace.op[5] /\ engine._caps.supportSRGBBuffers
                                  /\ engine._webGLVersion > 1
            texture == heap.internalTextures[trace.result]
        IN  /\ texture._useSRGBBuffer = passed
            /\ \E k \in 1..Len(trace.calls) : trace.calls[k][1] = "texImage2D"
            /\ \A k \in 1..Len(trace.calls) :
                   trace.calls[k][1] = "texImage2D" =>
                       /\ trace.calls[k][2] = _getRGBABufferInternalSizedFormat(
                                                  engine, texture.type, texture.format, passed)
                       /\ trace.calls[k][2] \in SRGBSizedFormats => passed
                       /\ texture.type = "TEXTURETYPE_UNSIGNED_BYTE" /\ passed =>
                              trace.calls[k][2] \in SRGBSizedFormats

SRGBFormatResolution == SizedFormatOf8BitRGBA /\ SRGBFlagPassedWhenSupported

(* An RGBA byte texture asked for with the sRGB flag on a WebGL 2 context  *)
(* that supports sRGB buffers is allocated as SRGB8_ALPHA8.                *)
SRGBFormatResolutionWitness ==
    /\ trace.op[1] = "_createInternalTexture"
    /\ trace.op[2] = "TEXTURETYPE_UNSIGNED_BYTE"
    /\ trace.op[4] = "undefined"
    /\ trace.op[5]
    /\ engine._webGLVersion = 2
    /\ \E k \in 1..Len(trace.calls) :
           trace.calls[k] = <<"texImage2D", "SRGB8_ALPHA8", "UNSIGNED_BYTE">>

----------------------------------------------------------------------------
(* C25: no operation of the engine other than the capability probe, which  *)
(* runs at construction and in the restoration of a lost context, changes  *)
(* any field of the capability record; the probe of a restoration replaces *)
(* the record by one read from the restored context.                       *)

CapabilityRecordReadOnly ==
    [][IF trace'.op[1] = "_restoreEngineAfterContextLost"
       THEN engine'._caps.context = gl.generation
       ELSE engine'._caps = engine._caps]_vars

(* A texture created after a restoration on a WebGL 1 context that gained  *)
(* 32-bit indices: the record is the one the restoration probed.           *)
CapabilityRecordReadOnlyWitness ==
    /\ trace.op[1] = "_createInternalTexture"
    /\ ~trace.threw
    /\ engine._caps.context = 1
    /\ engine._caps.uintIndices
    /\ engine._webGLVersion = 1

----------------------------------------------------------------------------
(* C28: whenever the creation options define forceSRGBBufferSupportState,  *)
(* the capability record's supportSRGBBuffers equals the option's value.   *)

ForcedSRGBBufferSupportState ==
    LET force == engine._creationOptions.forceSRGBBufferSupportState
    IN  force # NoString => engine._caps.supportSRGBBuffers = force[1]

(* What the probe computes: the option can withdraw the support the        *)
(* context has and cannot add support the context lacks.                   *)
ForcedSRGBBufferSupportOnlyWithdraws ==
    LET force == engine._creationOptions.forceSRGBBufferSupportState
        detected == engine._webGLVersion > 1 \/ getExtension(gl, "EXT_sRGB")
    IN  engine._caps.supportSRGBBuffers
            = (detected /\ (force # NoString => force[1]))

----------------------------------------------------------------------------
(* C26: two createEffect requests share an entry of the compiled-effects   *)
(* table, and so return the same Effect, exactly when their vertex ids,    *)
(* their fragment ids and their full defines (the global defines included) *)
(* are equal: here for a request that directly follows another.            *)

RequestTriple(op) ==
    <<VertexOf(op[2]), FragmentOf(op[2]),
      FullDefines([e |-> engine], op[3].options, op[3].defines)>>

SharedEntryIffEqualTriples ==
    [][trace.op[1] = "createEffect" /\ trace'.op[1] = "createEffect" =>
          ((trace'.result = trace.result)
               <=> (RequestTriple(trace'.op) = RequestTriple(trace.op)))]_vars

(* What the table does: the entry is shared exactly when the names built   *)
(* as vertex + "+" + fragment + "@" + full defines are equal.              *)
SharedEntryIffEqualNames ==
    [][trace.op[1] = "createEffect" /\ trace'.op[1] = "createEffect" =>
          ((trace'.result = trace.result)
               <=> (EffectName([e |-> engine], trace'.op[2], trace'.op[3].options,
                               trace'.op[3].defines)
                      = EffectName([e |-> engine], trace.op[2], trace.op[3].options,
                                   trace.op[3].defines)))]_vars

----------------------------------------------------------------------------
(* C29: releaseEffects leaves the compiled-effects table empty and         *)
(* notifies the release observers, who find the table empty; the           *)
(* createEffect that follows builds a new Effect with one reference and    *)
(* does not return an Effect that existed before, whatever its key.        *)

ReleaseEffectsForgetsAll ==
    [][/\ trace'.op[1] = "releaseEffects" =>
              /\ engine'._compiledEffects = {}
              /\ heap'.onReleaseEffectsObservable.notified
                     = heap.onReleaseEffectsObservable.notified + 1
              /\ heap'.onReleaseEffectsObservable._compiledEffects = {}
       /\ trace.op[1] = "releaseEffects" /\ trace'.op[1] = "createEffect" =>
              /\ heap.effectObjects[trace'.result].state = "free"
              /\ heap'.effectObjects[trace'.result].state = "live"
              /\ heap'.effectObjects[trace'.result]._refCount = 1
              /\ engine'._compiledEffects
                     = {[key |-> heap'.effectObjects[trace'.result]._key,
                         effect |-> trace'.result]}]_vars

(* An Effect built for a key under which another live Effect was cached    *)
(* before the release.                                                     *)
ReleaseEffectsForgetsAllWitness ==
    /\ trace.op[1] = "createEffect"
    /\ heap.onReleaseEffectsObservable.notified = 1
    /\ \E effect \in EffectIds \ {trace.result} :
           /\ heap.effectObjects[effect].state = "live"
           /\ heap.effectObjects[effect]._key = heap.effectObjects[trace.result]._key
    /\ engine._compiledEffects
           = {[key |-> heap.effectObjects[trace.result]._key, effect |-> trace.result]}

----------------------------------------------------------------------------
(* C30: while enableUnpackFlipYCached is false, every _unpackFlipY(value)  *)
(* issues pixelStorei(UNPACK_FLIP_Y_WEBGL, value), whatever values were    *)
(* passed before and whatever the flag was before.                         *)

IssuesUnpackFlipY(value) ==
    trace'.calls = << <<"pixelStorei", "UNPACK_FLIP_Y_WEBGL", B(value)>> >>

UncachedUnpackFlipYAlwaysIssues ==
    [][trace'.op[1] = "_unpackFlipY" /\ ~engine.enableUnpackFlipYCached =>
          IssuesUnpackFlipY(trace'.op[2])]_vars

(* What the code does: the call is skipped exactly when the value is the   *)
(* one cached, and with the flag false no value is added to the cache,     *)
(* but a value cached while the flag was true stays.                       *)
UnpackFlipYIssuesUnlessCached ==
    [][trace'.op[1] = "_unpackFlipY" =>
          /\ IF engine._unpackFlipYCached = Some(trace'.op[2])
             THEN trace'.calls = << >>
             ELSE IssuesUnpackFlipY(trace'.op[2])
          /\ ~engine.enableUnpackFlipYCached =>
                 engine'._unpackFlipYCached = engine._unpackFlipYCached]_vars

----------------------------------------------------------------------------
(* C27: the number of active particles never exceeds the capacity given at *)
(* construction, after any sequence of start (with its pre-warm cycles),   *)
(* animate (emitting by rate or by manualEmitCount), stop and reset.       *)

ActiveParticlesWithinCapacity ==
    2 * Len(heap.particleSystem._particles) <= heap.particleSystem._capacity

(* The same for a capacity that is a whole number. *)
ActiveParticlesWithinWholeCapacity ==
    heap.particleSystem._capacity % 2 = 0 =>
        2 * Len(heap.particleSystem._particles) <= heap.particleSystem._capacity

(* A system of capacity 1 that emits one particle per update, after an     *)
(* update in which its one particle lived on and no other was created.     *)
ActiveParticlesWithinWholeCapacityWitness ==
    /\ trace.op[1] = "animate"
    /\ heap.particleSystem._capacity = 2
    /\ heap.particleSystem._particles = <<1>>
    /\ heap.particleSystem.emitRate >= 2
    /\ heap.particleSystem.manualEmitCount = -1
    /\ ~heap.particleSystem._stopped

----------------------------------------------------------------------------
(* C31: wipeCaches(true) leaves every cache cleared (the current effect    *)
(* and program, the texture cache, the viewport cache, the vertex array    *)
(* object, the vertex and index buffer caches, the stencil and depth       *)
(* state, every vertex attribute) whether or not                           *)
(* preventCacheWipeBetweenFrames is set; wipeCaches() without bruteForce   *)
(* on an engine with preventCacheWipeBetweenFrames set changes nothing of  *)
(* the engine and issues no driver call.                                   *)

ClearedCaches(e) ==
    /\ e._currentEffect = Null
    /\ e._currentProgram = Null
    /\ \A c \in Channels : e._boundTexturesCache[c] = Undefined
    /\ e._viewportCached = <<0, 0, 0, 0>>
    /\ e._cachedVertexArrayObject \in {Null, Undefined}
    /\ e._cachedVertexBuffers = Null
    /\ e._cachedIndexBuffer = Null
    /\ e._cachedEffectForVertexBuffers = Null
    /\ \A t \in BufferTargets : e._currentBoundBuffer[t] = Null
    /\ e._stencilStateComposer.stencilMaterial = NoString
    /\ e._depthCullingState = [cull |-> NoString, depthFunc |-> Some("LEQUAL")]
    /\ e._unpackFlipYCached = NoString
    /\ \A i \in AttribLocations :
           /\ ~e._vertexAttribArraysEnabled[i]
           /\ ~e._currentBufferPointers[i].active

----------------------------------------------------------------------------
(* C32: isStarted() is what it was immediately after stop(), so a started  *)
(* system is still started; it becomes false only in an animate() that     *)
(* leaves the system stopped and found no particle alive, and that         *)
(* animate() invokes onAnimationEnd; and a stopped system that is animated *)
(* again and again is eventually no longer started (or is started anew).   *)

----------------------------------------------------------------------------
(* C37: an animate() of a system that is stopped, by stop() or by its      *)
(* targetStopDuration, and that has not been started again, adds no        *)
(* particle: the active list does not grow and, when the system is still   *)
(* started and so is updated, holds no particle of age 0; the list of a    *)
(* system that is no longer started is left as it is.                      *)

----------------------------------------------------------------------------
(* C33: when the capability record lacks instancing, an update writes 4    *)
(* vertex records per active particle, one after the other, with the       *)
(* corner offsets (0,0), (1,0), (1,1), (0,1), and the draw asks for 6      *)
(* indices per particle, which the index buffer of the system holds; with  *)
(* instancing it writes 1 record per particle and draws 4 vertices per     *)
(* instance, one instance per particle.                                    *)

IsVertexRecord(call) == call[1] = "_appendParticleVertex"
VertexRecords == SelectSeq(trace.calls, IsVertexRecord)
CornerOffsets == << <<0, 0>>, <<1, 0>>, <<1, 1>>, <<0, 1>> >>
Requested(call) == \E k \in 1..Len(trace.calls) : trace.calls[k] = call

----------------------------------------------------------------------------
(* C39: when stop() or dispose() was called while the timer of a           *)
(* start(delay) was pending, the callback of the timer neither sets the    *)
(* system to started nor notifies an observer of onStartedObservable.      *)
(* Checked for the callback that runs right after the stop() or dispose(). *)

StoppedBeforeDelayedStart ==
    [][(/\ trace.op[1] \in {"stop", "dispose"}
        /\ heap.timers > 0
        /\ trace'.op[1] = "setTimeout") =>
           /\ ~isStarted(heap'.particleSystem)
           /\ \A k \in 1..Len(trace'.calls) :
                  trace'.calls[k][1] = "onStartedObservable" => trace'.calls[k][2] = 0]_vars

----------------------------------------------------------------------------
(* C34: recordVertexArrayObject leaves the caches of the default vertex    *)
(* state as they were: the enabled bit of every attribute, the cached      *)
(* pointer and active flag of every attribute, and the cached array and    *)
(* element buffer bindings.                                                *)

RecordingKeepsDefaultVertexState ==
    [][(trace'.op[1] = "recordVertexArrayObject" /\ ~trace'.threw) =>
           /\ engine'._vertexAttribArraysEnabled = engine._vertexAttribArraysEnabled
           /\ engine'._currentBufferPointers = engine._currentBufferPointers
           /\ engine'._currentBoundBuffer = engine._currentBoundBuffer]_vars

----------------------------------------------------------------------------
(* C35: a buffer that _releaseBuffer has deleted is in no cache of the     *)
(* engine: it is not the cached array or element buffer binding, not the   *)
(* cached index buffer, and no active cached attribute pointer names it.   *)

NoDeletedBufferCached ==
    \A b \in BufferIds :
        heap.buffers[b].state = "deleted" =>
            /\ \A t \in BufferTargets : engine._currentBoundBuffer[t] # b
            /\ engine._cachedIndexBuffer # b
            /\ \A i \in AttribLocations :
                   engine._currentBufferPointers[i].active =>
                       engine._currentBufferPointers[i].buffer # b

----------------------------------------------------------------------------
(* C36: _releaseBuffer issues deleteBuffer exactly when it takes the last  *)
(* reference of a buffer, which is alive until then, and issues it once;   *)
(* a release of a buffer whose count is 0 or negative issues no driver     *)
(* call, returns false and leaves the buffer deleted.  The count of a      *)
(* deleted buffer is never positive again.                                 *)

BufferDeletedOnce ==
    [][/\ trace'.op[1] = "_releaseBuffer" =>
            LET buffer == trace'.op[2] IN
            /\ Deletes(There, buffer) <=> heap.buffers[buffer].references = 1
            /\ Deletes(There, buffer) =>
                   /\ heap.buffers[buffer].state = "live"
                   /\ trace'.calls = << <<"deleteBuffer", buffer, 0>> >>
            /\ heap.buffers[buffer].references <= 0 =>
                   /\ ~trace'.result
                   /\ trace'.calls = << >>
                   /\ heap'.buffers[buffer].state = "deleted"
       /\ \A b \in BufferIds :
              heap.buffers[b].state = "deleted" =>
                  /\ heap.buffers[b].references <= 0
                  /\ heap'.buffers[b].state = "deleted"
                  /\ heap'.buffers[b].references <= 0]_vars

(* The second release of a buffer after the one that deleted it. *)
BufferDeletedOnceWitness ==
    /\ trace.op[1] = "_releaseBuffer"
    /\ heap.buffers[trace.op[2]].references = -2
    /\ heap.buffers[trace.op[2]].state = "deleted"
    /\ trace.calls = << >>
    /\ ~trace.result

----------------------------------------------------------------------------
(* C38: after every frame the attached and enabled plane detector has      *)
(* processed, the native planes of its detected-planes list are the        *)
(* detected planes of the frame, each once; onPlaneAddedObservable was     *)
(* notified once for every plane that entered the list and                 *)
(* onPlaneRemovedObservable once for every plane that left it, whatever    *)
(* attach, detach and session initialisation came before.                  *)

PlanesOf(detector) == {detector._detectedPlanes[k] : k \in 1..Len(detector._detectedPlanes)}
Notified(calls, observable, plane) == Cardinality({k \in 1..Len(calls) : calls[k] = <<observable, plane, 0>>})

DetectedPlanesFollowFrame ==
    [][(/\ trace'.op[1] = "_onXRFrame"
        /\ heap.planeDetector.attached
        /\ heap.planeDetector._enabled
        /\ trace'.op[2] # NoString) =>
           LET before == PlanesOf(heap.planeDetector)
               after == PlanesOf(heap'.planeDetector)
           IN  /\ ~trace'.threw
               /\ after = trace'.op[2][1]
               /\ Len(heap'.planeDetector._detectedPlanes) = Cardinality(after)
               /\ \A plane \in XRPlanes :
                      /\ Notified(trace'.calls, "onPlaneAddedObservable", plane) =
                             IF plane \in after \ before THEN 1 ELSE 0
                      /\ Notified(trace'.calls, "onPlaneRemovedObservable", plane) =
                             IF plane \in before \ after THEN 1 ELSE 0]_vars

====
